---- MODULE Spec2Model ----
(***************************************************************************)
(* County-health scoring pipeline: percentile ranking and roll-up          *)
(* aggregation as implemented by                                           *)
(*   CountyHealthDataProcessor      (improved_data_structure.py)           *)
(*   SimpleETL / SimpleDataProcessor / FlexibleMetricHierarchy             *)
(*                                   (county_health_etl.py)                *)
(*   create_database_from_csv, calculate_percentiles                       *)
(*                                   (create_sqlite_db_v2.py)              *)
(*   fix_counties_table             (fix_counties_table.py)                *)
(*                                                                         *)
(* CountyHealthDataProcessor works on county_health_improved.db; SimpleETL,*)
(* create_sqlite_db_v2 and fix_counties_table work on one file,            *)
(* county_health.db.  A table changes where the program commits: a DDL     *)
(* statement and a to_sql call commit on their own, the statements of a    *)
(* transaction at its commit.                                              *)
(*                                                                         *)
(* Strings that the code splits on '_' are sequences of '_'-free tokens:   *)
(* split('_') yields the tokens, '_'.join and f"{a}_{b}" concatenate.      *)
(* Numbers are IEEE 754 doubles, written <<n, d, en, ed>>: the value in    *)
(* exact arithmetic n/d and the rounding error en/ed in units of 2^-52.    *)
(* A property stated in real arithmetic is compared with the stored        *)
(* doubles up to rounding (Near); ties between stored values are ties of   *)
(* the doubles.                                                            *)
(***************************************************************************)
EXTENDS Integers, Sequences, FiniteSets, Bags, TLC

VARIABLES
    pc,                 \* position of the running program
    columns,            \* metric columns of the input file, in file order
    df,                 \* rows of the input file
    counties,           \* CountyHealthDataProcessor: table counties
    metric_metadata,    \* CountyHealthDataProcessor: table metric_metadata
    raw_metrics,        \* CountyHealthDataProcessor: table raw_metrics
    aggregated_scores,  \* CountyHealthDataProcessor: table aggregated_scores
    summary_report,     \* CountyHealthDataProcessor: county_health_summary.csv
    rank_runs,          \* calls of calculate_percentiles in this execution
    agg_runs,           \* calls of calculate_aggregated_scores in it
    main_runs,          \* executions of the __main__ script started so far
    hierarchy_metrics,  \* FlexibleMetricHierarchy.metrics of the last run
    etl_hierarchy,      \* FlexibleMetricHierarchy.hierarchy of the last run
    etl_counties,       \* county_health.db: table counties, a bag of rows
    etl_raw_metrics,    \* county_health.db: table raw_metrics
    computed_metrics,   \* county_health.db: table or view computed_metrics
    etl_runs,           \* calls of SimpleETL.run_pipeline that returned
    county_data,        \* county_health.db: table county_data
    metric_percentiles, \* county_health.db: table metric_percentiles
    simple_etl_df,      \* run_simple_etl: the frame it returns
    loaded_df,          \* data_loader.load_data: the frame it returns
    rank_tasks,         \* calculate_percentiles: the metrics being ranked
    dashboard_data,     \* get_county_data_for_dashboard: the mappings returned
    drill_down_state,   \* dashboard: dcc.Store drill-down-state
    navigation_history, \* dashboard: dcc.Store navigation-history
    back_disabled       \* dashboard: back-button.disabled

vars == <<pc, columns, df, counties, metric_metadata, raw_metrics,
          aggregated_scores, summary_report, rank_runs, agg_runs, main_runs,
          hierarchy_metrics, etl_hierarchy, etl_counties, etl_raw_metrics,
          computed_metrics, etl_runs, county_data, metric_percentiles,
          simple_etl_df, loaded_df, rank_tasks, dashboard_data,
          drill_down_state, navigation_history, back_disabled>>

\* the state of each program, and the input file
chdp_vars == <<counties, metric_metadata, raw_metrics, aggregated_scores,
               summary_report, rank_runs, agg_runs, main_runs>>
etl_vars == <<hierarchy_metrics, etl_hierarchy, etl_counties, etl_raw_metrics,
              computed_metrics, etl_runs>>
sqlite_vars == <<county_data, metric_percentiles>>
input_vars == <<columns, df>>
\* the stand-alone sanitizers, the ranking loop, the read contract and the
\* dashboard
sanitizer_vars == <<simple_etl_df, loaded_df>>
reader_vars == <<rank_tasks, dashboard_data>>
nav_vars == <<drill_down_state, navigation_history, back_disabled>>
other_vars == <<sanitizer_vars, reader_vars, nav_vars>>

\* a missing value: NaN in a data frame, NULL in a table
NULL == <<>>
\* a missing State or County: an empty text cell of the file reads as NaN
NoText == ""

----------------------------------------------------------------------------
(* Bounds of the model *)

NumRegions == 4     \* rows of the ranking inputs
MaxValue == 3       \* cell values of the ranking inputs are 1..MaxValue
MaxRankRuns == 2    \* calls of calculate_percentiles per run
MaxMainRuns == 2    \* executions of the __main__ script
MaxAggRuns == 2     \* calls of calculate_aggregated_scores per import
MaxEtlRuns == 2     \* calls of SimpleETL.run_pipeline
MaxHistory == 3     \* entries of the navigation history

----------------------------------------------------------------------------
(* Numbers.  The program computes in IEEE 754 doubles (numpy.float64,      *)
(* SQLite REAL, Python float).  A number is written <<n, d, en, ed>> and   *)
(* stands for n/d + (en/ed) * 2^-52, both fractions in lowest terms: n/d   *)
(* is the result in exact arithmetic, the second part what the roundings   *)
(* of the operations have added to it.  With the small numerators and      *)
(* denominators of the model two numbers are equal exactly when their      *)
(* four components are, and they compare first by n/d, then by en/ed.      *)

Abs(n) == IF n < 0 THEN -n ELSE n

RECURSIVE GCD(_, _)
GCD(a, b) == IF b = 0 THEN a ELSE GCD(b, a % b)

\* fractions <<n, d>> in lowest terms, d > 0
Frac(n, d) ==
    IF d = 1 THEN <<n, 1>>
    ELSE LET g == GCD(Abs(n), Abs(d))
         IN  IF d < 0 THEN <<(-n) \div g, (-d) \div g>>
             ELSE <<n \div g, d \div g>>
FracAdd(a, b) == Frac(a[1] * b[2] + b[1] * a[2], a[2] * b[2])
FracSub(a, b) == Frac(a[1] * b[2] - b[1] * a[2], a[2] * b[2])
FracMul(a, b) == Frac(a[1] * b[1], a[2] * b[2])
FracDiv(a, b) == Frac(a[1] * b[2], a[2] * b[1])
FracLess(a, b) == a[1] * b[2] < b[1] * a[2]

Num(q, e) == <<q[1], q[2], e[1], e[2]>>
\* the result in exact arithmetic, and the rounding error in units of 2^-52
Nominal(a) == <<a[1], a[2]>>
RoundingError(a) == <<a[3], a[4]>>

\* two numbers that differ by rounding errors only: equal in exact
\* arithmetic and at most 2^-44 apart, which is four units in the last
\* place of a percentile above 64
Near(a, b) ==
    /\ Nominal(a) = Nominal(b)
    /\ LET gap == FracSub(RoundingError(a), RoundingError(b))
       IN  Abs(gap[1]) <= 256 * gap[2]

\* exact arithmetic
Norm(n, d) == Num(Frac(n, d), <<0, 1>>)
Rat(n) == <<n, 1, 0, 1>>
RAdd(a, b) ==
    Num(FracAdd(Nominal(a), Nominal(b)),
        FracAdd(RoundingError(a), RoundingError(b)))
RSub(a, b) ==
    Num(FracSub(Nominal(a), Nominal(b)),
        FracSub(RoundingError(a), RoundingError(b)))
\* the product of a number and an exact one
RMul(a, b) ==
    Num(FracMul(Nominal(a), Nominal(b)),
        FracAdd(FracMul(Nominal(a), RoundingError(b)),
                FracMul(Nominal(b), RoundingError(a))))
RDivInt(a, n) ==
    Num(Frac(a[1], a[2] * n), Frac(a[3], a[4] * n))
RNeg(a) == <<-a[1], a[2], -a[3], a[4]>>
RLess(a, b) ==
    \/ FracLess(Nominal(a), Nominal(b))
    \/ /\ Nominal(a) = Nominal(b)
       /\ FracLess(RoundingError(a), RoundingError(b))

RECURSIVE RSum(_, _)
RSum(f, S) ==
    IF S = {} THEN Rat(0)
    ELSE LET x == CHOOSE y \in S : TRUE IN RAdd(f[x], RSum(f, S \ {x}))

\* the arithmetic mean in exact arithmetic of the values of f
Mean(f) == RDivInt(RSum(f, DOMAIN f), Cardinality(DOMAIN f))

\* the greatest power of two that is at most the fraction q > 0
RECURSIVE Pow2Floor(_)
Pow2Floor(q) ==
    IF ~FracLess(q, <<2, 1>>) THEN FracMul(<<2, 1>>, Pow2Floor(FracDiv(q, <<2, 1>>)))
    ELSE IF FracLess(q, <<1, 1>>)
         THEN FracDiv(Pow2Floor(FracMul(q, <<2, 1>>)), <<2, 1>>)
         ELSE <<1, 1>>

\* 2^52 modulo m
Pow52Mod(m) ==
    LET p13 == 8192 % m
        p26 == (p13 * p13) % m
    IN  (p26 * p26) % m

\* round to nearest, ties to even, of the positive number x = q + e to a
\* double: with g the power of two of x's binade the doubles there are the
\* multiples of g * 2^-52; q = (K + t/m) * g * 2^-52 with K an integer
\* whose parity is kpar, so x lies y = t/m + e/g units above the double K,
\* and the nearest double lies j units above it

\* the power of two of the binade: the one below when x is just under g0
Binade(q, e, g0) ==
    IF q = g0 /\ e[1] < 0 THEN FracDiv(g0, <<2, 1>>) ELSE g0

\* j: y rounded to the nearest integer, a tie to the even double
NearestUnits(q, g, t, m, kpar, y, floor) ==
    LET twice == 2 * (y[1] - floor * y[2])
        j == IF twice < y[2] THEN floor
             ELSE IF twice > y[2] THEN floor + 1
             ELSE IF (kpar + floor) % 2 = 0 THEN floor ELSE floor + 1
    IN  Num(q, FracMul(g, FracSub(<<j, 1>>, Frac(t, m))))

UnitsAbove(q, g, t, m, kpar, y) ==
    NearestUnits(q, g, t, m, kpar, y, y[1] \div y[2])

\* t2 is the mantissa times 2^52 modulo 2: t2 = kpar + t/m
RoundFraction(q, e, g, m, t2) ==
    UnitsAbove(q, g, t2 % m, m, (t2 - (t2 % m)) \div m,
               FracAdd(<<t2 % m, m>>, FracDiv(e, g)))

RoundMantissa(q, e, g, mant) ==
    RoundFraction(q, e, g, mant[2],
                  ((mant[1] % (2 * mant[2])) * Pow52Mod(2 * mant[2]))
                     % (2 * mant[2]))

RoundInBinade(q, e, g) == RoundMantissa(q, e, g, FracDiv(q, g))

RoundPositive(x) ==
    RoundInBinade(Nominal(x), RoundingError(x),
                  Binade(Nominal(x), RoundingError(x), Pow2Floor(Nominal(x))))

\* the double nearest to x; a number without exact part is a double, and
\* so is a fraction of the model whose denominator is a power of two
Round(x) ==
    IF x[1] = 0 \/ (x[3] = 0 /\ x[2] \in {1, 2, 4, 8, 16, 32, 64}) THEN x
    ELSE IF x[1] < 0 THEN RNeg(RoundPositive(RNeg(x)))
    ELSE RoundPositive(x)

\* the operations of the doubles
FAdd(a, b) == Round(RAdd(a, b))
FSub(a, b) == Round(RSub(a, b))
FDivInt(a, n) == Round(RDivInt(a, n))
Times100(a) == Round(RMul(a, Rat(100)))

\* SQLite's AVG of the doubles of a sequence: the sum of the values in the
\* order of the rows, divided by their number
RECURSIVE FSum(_, _)
FSum(values, n) ==
    IF n = 0 THEN Rat(0) ELSE FAdd(FSum(values, n - 1), values[n])
Avg(values) == FDivInt(FSum(values, Len(values)), Len(values))

----------------------------------------------------------------------------
(* pandas Series.rank(pct=True), default method='average', over the       *)
(* non-null entries f (a function from row keys to numbers): the average  *)
(* rank of the run of equal values, divided by the number of entries      *)

RankTwice(f, k) ==
    2 * Cardinality({x \in DOMAIN f : RLess(f[x], f[k])})
      + Cardinality({x \in DOMAIN f : f[x] = f[k]}) + 1

\* rank(method='min'): tied values all take the lowest position of the run
RankPctMin(f, k) ==
    Round(Norm(Cardinality({x \in DOMAIN f : RLess(f[x], f[k])}) + 1,
               Cardinality(DOMAIN f)))

\* zero-based rank: the smallest value gets 0
RankPctZeroBased(f, k) ==
    Round(Norm(RankTwice(f, k) - 2, 2 * Cardinality(DOMAIN f)))

\* rank divided by the number of rows of the batch, missing values included
RankPctOverBatch(f, k) == Round(Norm(RankTwice(f, k), 2 * Len(df)))

RankPct(f, k) == Round(Norm(RankTwice(f, k), 2 * Cardinality(DOMAIN f)))

----------------------------------------------------------------------------
(* Column names of the input file and the case conversions of their tokens *)

ColHealthIndex == <<"Society", "HEALTH">>
ColLifeExp     == <<"Society", "Health", "LifeExp">>
ColInfant      == <<"Society", "Health", "infant", "mortality">>
ColIncome      == <<"Society", "WEALTH", "income">>
ColGDP         == <<"Economy", "Business", "GDPGrowth">>
ColHealthHealth == <<"Society", "Health", "health">>
ColBusinessTrend == <<"Economy", "Business", "BUSINESS", "trend">>
ColPopulation  == <<"Population">>
ColHousingRent == <<"Housing", "Quality", "rent">>

\* the words of the column names and texts of the model; a token without
\* cased letters (" ", digits) is its own lower and upper case
LowerCase ==
    "Society" :> "society" @@ "SOCIETY" :> "society" @@ "Health" :> "health"
      @@ "HEALTH" :> "health" @@ "Wealth" :> "wealth"
      @@ "WEALTH" :> "wealth" @@ "Economy" :> "economy"
      @@ "ECONOMY" :> "economy" @@ "Business" :> "business"
      @@ "BUSINESS" :> "business" @@ "GDPGrowth" :> "gdpgrowth"
      @@ "GDPGROWTH" :> "gdpgrowth" @@ "Gdpgrowth" :> "gdpgrowth"
      @@ "LifeExp" :> "lifeexp" @@ "LIFEEXP" :> "lifeexp"
      @@ "Lifeexp" :> "lifeexp" @@ "INFANT" :> "infant"
      @@ "Infant" :> "infant" @@ "MORTALITY" :> "mortality"
      @@ "Mortality" :> "mortality" @@ "INCOME" :> "income"
      @@ "Income" :> "income" @@ "TREND" :> "trend" @@ "Trend" :> "trend"
      @@ "Population" :> "population" @@ "POPULATION" :> "population"
      @@ "Housing" :> "housing" @@ "HOUSING" :> "housing"
      @@ "Quality" :> "quality" @@ "QUALITY" :> "quality"
      @@ "RENT" :> "rent" @@ "Rent" :> "rent" @@ "Overall" :> "overall"
      @@ "OVERALL" :> "overall" @@ "Education" :> "education"
      @@ "EDUCATION" :> "education" @@ "Community" :> "community"
      @@ "COMMUNITY" :> "community" @@ "Life" :> "life" @@ "LIFE" :> "life"
      @@ "Expectancy" :> "expectancy" @@ "EXPECTANCY" :> "expectancy"
      @@ "Violent" :> "violent" @@ "VIOLENT" :> "violent"
      @@ "Crime" :> "crime" @@ "CRIME" :> "crime" @@ "Rate" :> "rate"
      @@ "RATE" :> "rate" @@ "KeyIndicator" :> "keyindicator"
      @@ "KEYINDICATOR" :> "keyindicator"
      @@ "Keyindicator" :> "keyindicator" @@ "COUNTY" :> "county"
      @@ "County" :> "county" @@ "FIPS" :> "fips" @@ "Fips" :> "fips"
      @@ "NAME" :> "name" @@ "Name" :> "name" @@ "STATE" :> "state"
      @@ "State" :> "state" @@ "CODE" :> "code" @@ "Code" :> "code"
      @@ "Nature" :> "nature" @@ "NATURE" :> "nature"
      @@ "PLANET" :> "planet" @@ "Planet" :> "planet"
      @@ "EDUCATIONINDEX" :> "educationindex"
      @@ "Educationindex" :> "educationindex"
      @@ "COMMUNITYINDEX" :> "communityindex"
      @@ "Communityindex" :> "communityindex"
      @@ "GOVERNMENT" :> "government" @@ "Government" :> "government"
      @@ "NON-PROFIT" :> "non-profit" @@ "Non-profit" :> "non-profit"
      @@ "EMPLOYMENT" :> "employment" @@ "Employment" :> "employment"
      @@ "ENERGY" :> "energy" @@ "Energy" :> "energy"
      @@ "NONPROFIT" :> "nonprofit" @@ "Nonprofit" :> "nonprofit"
      @@ "INDEX" :> "index" @@ "Index" :> "index" @@ "OTHER" :> "other"
      @@ "Other" :> "other" @@ "Severe" :> "severe" @@ "SEVERE" :> "severe"
      @@ "Problems" :> "problems" @@ "PROBLEMS" :> "problems"
      @@ "Residential" :> "residential" @@ "RESIDENTIAL" :> "residential"
      @@ "Internet" :> "internet" @@ "INTERNET" :> "internet"
      @@ "Service" :> "service" @@ "SERVICE" :> "service"
      @@ "Access" :> "access" @@ "ACCESS" :> "access" @@ "AL" :> "al"
      @@ "Al" :> "al" @@ "Autauga" :> "autauga" @@ "AUTAUGA" :> "autauga"
      @@ "OBESITY" :> "obesity" @@ "Obesity" :> "obesity"
      @@ "CHILD" :> "child" @@ "Child" :> "child" @@ "POVERTY" :> "poverty"
      @@ "Poverty" :> "poverty" @@ "INEQUALITY" :> "inequality"
      @@ "Inequality" :> "inequality" @@ "FOOD" :> "food"
      @@ "Food" :> "food" @@ "INSECURITY" :> "insecurity"
      @@ "Insecurity" :> "insecurity" @@ "UNEMPLOYMENT" :> "unemployment"
      @@ "Unemployment" :> "unemployment" @@ "CO2" :> "co2"
      @@ "Co2" :> "co2" @@ "PER" :> "per" @@ "Per" :> "per"
      @@ "CAPITA" :> "capita" @@ "Capita" :> "capita" @@ "AIR" :> "air"
      @@ "Air" :> "air" @@ "PM25" :> "pm25" @@ "Pm25" :> "pm25"
      @@ "OF" :> "of" @@ "Of" :> "of" @@ "Length" :> "length"
      @@ "LENGTH" :> "length"

UpperCase ==
    "Society" :> "SOCIETY" @@ "society" :> "SOCIETY" @@ "Health" :> "HEALTH"
      @@ "health" :> "HEALTH" @@ "Wealth" :> "WEALTH"
      @@ "wealth" :> "WEALTH" @@ "Economy" :> "ECONOMY"
      @@ "economy" :> "ECONOMY" @@ "Business" :> "BUSINESS"
      @@ "business" :> "BUSINESS" @@ "GDPGrowth" :> "GDPGROWTH"
      @@ "gdpgrowth" :> "GDPGROWTH" @@ "Gdpgrowth" :> "GDPGROWTH"
      @@ "LifeExp" :> "LIFEEXP" @@ "lifeexp" :> "LIFEEXP"
      @@ "Lifeexp" :> "LIFEEXP" @@ "infant" :> "INFANT"
      @@ "Infant" :> "INFANT" @@ "mortality" :> "MORTALITY"
      @@ "Mortality" :> "MORTALITY" @@ "income" :> "INCOME"
      @@ "Income" :> "INCOME" @@ "trend" :> "TREND" @@ "Trend" :> "TREND"
      @@ "Population" :> "POPULATION" @@ "population" :> "POPULATION"
      @@ "Housing" :> "HOUSING" @@ "housing" :> "HOUSING"
      @@ "Quality" :> "QUALITY" @@ "quality" :> "QUALITY"
      @@ "rent" :> "RENT" @@ "Rent" :> "RENT" @@ "Overall" :> "OVERALL"
      @@ "overall" :> "OVERALL" @@ "Education" :> "EDUCATION"
      @@ "education" :> "EDUCATION" @@ "Community" :> "COMMUNITY"
      @@ "community" :> "COMMUNITY" @@ "Life" :> "LIFE" @@ "life" :> "LIFE"
      @@ "Expectancy" :> "EXPECTANCY" @@ "expectancy" :> "EXPECTANCY"
      @@ "Violent" :> "VIOLENT" @@ "violent" :> "VIOLENT"
      @@ "Crime" :> "CRIME" @@ "crime" :> "CRIME" @@ "Rate" :> "RATE"
      @@ "rate" :> "RATE" @@ "KeyIndicator" :> "KEYINDICATOR"
      @@ "keyindicator" :> "KEYINDICATOR"
      @@ "Keyindicator" :> "KEYINDICATOR" @@ "county" :> "COUNTY"
      @@ "County" :> "COUNTY" @@ "fips" :> "FIPS" @@ "Fips" :> "FIPS"
      @@ "name" :> "NAME" @@ "Name" :> "NAME" @@ "state" :> "STATE"
      @@ "State" :> "STATE" @@ "code" :> "CODE" @@ "Code" :> "CODE"
      @@ "Nature" :> "NATURE" @@ "nature" :> "NATURE"
      @@ "planet" :> "PLANET" @@ "Planet" :> "PLANET"
      @@ "educationindex" :> "EDUCATIONINDEX"
      @@ "Educationindex" :> "EDUCATIONINDEX"
      @@ "communityindex" :> "COMMUNITYINDEX"
      @@ "Communityindex" :> "COMMUNITYINDEX"
      @@ "government" :> "GOVERNMENT" @@ "Government" :> "GOVERNMENT"
      @@ "non-profit" :> "NON-PROFIT" @@ "Non-profit" :> "NON-PROFIT"
      @@ "employment" :> "EMPLOYMENT" @@ "Employment" :> "EMPLOYMENT"
      @@ "energy" :> "ENERGY" @@ "Energy" :> "ENERGY"
      @@ "nonprofit" :> "NONPROFIT" @@ "Nonprofit" :> "NONPROFIT"
      @@ "index" :> "INDEX" @@ "Index" :> "INDEX" @@ "other" :> "OTHER"
      @@ "Other" :> "OTHER" @@ "Severe" :> "SEVERE" @@ "severe" :> "SEVERE"
      @@ "Problems" :> "PROBLEMS" @@ "problems" :> "PROBLEMS"
      @@ "Residential" :> "RESIDENTIAL" @@ "residential" :> "RESIDENTIAL"
      @@ "Internet" :> "INTERNET" @@ "internet" :> "INTERNET"
      @@ "Service" :> "SERVICE" @@ "service" :> "SERVICE"
      @@ "Access" :> "ACCESS" @@ "access" :> "ACCESS" @@ "al" :> "AL"
      @@ "Al" :> "AL" @@ "Autauga" :> "AUTAUGA" @@ "autauga" :> "AUTAUGA"
      @@ "obesity" :> "OBESITY" @@ "Obesity" :> "OBESITY"
      @@ "child" :> "CHILD" @@ "Child" :> "CHILD" @@ "poverty" :> "POVERTY"
      @@ "Poverty" :> "POVERTY" @@ "inequality" :> "INEQUALITY"
      @@ "Inequality" :> "INEQUALITY" @@ "food" :> "FOOD"
      @@ "Food" :> "FOOD" @@ "insecurity" :> "INSECURITY"
      @@ "Insecurity" :> "INSECURITY" @@ "unemployment" :> "UNEMPLOYMENT"
      @@ "Unemployment" :> "UNEMPLOYMENT" @@ "co2" :> "CO2"
      @@ "Co2" :> "CO2" @@ "per" :> "PER" @@ "Per" :> "PER"
      @@ "capita" :> "CAPITA" @@ "Capita" :> "CAPITA" @@ "air" :> "AIR"
      @@ "Air" :> "AIR" @@ "pm25" :> "PM25" @@ "Pm25" :> "PM25"
      @@ "of" :> "OF" @@ "Of" :> "OF" @@ "Length" :> "LENGTH"
      @@ "length" :> "LENGTH"

\* str.lower()
Lower(t) == IF t \in DOMAIN LowerCase THEN LowerCase[t] ELSE t

\* str.upper()
Upper(t) == IF t \in DOMAIN UpperCase THEN UpperCase[t] ELSE t

SubSeqFrom(s, i) == SubSeq(s, i, Len(s))

\* the lower-case tokens in the order of SQLite's BINARY collation; no token
\* continues another one with a character below '_', so that names joined
\* by '_' compare as the sequences of their tokens do
Collation ==
    <<"access", "air", "al", "autauga", "business", "capita", "child",
      "co2", "code", "community", "communityindex", "county", "crime",
      "economy", "education", "educationindex", "employment", "energy",
      "expectancy", "fips", "food", "gdpgrowth", "government", "health",
      "housing", "income", "index", "inequality", "infant", "insecurity",
      "internet", "keyindicator", "length", "life", "lifeexp", "mortality",
      "name", "nature", "non-profit", "nonprofit", "obesity", "of",
      "other", "overall", "per", "planet", "pm25", "population", "poverty",
      "problems", "quality", "rate", "rent", "residential", "service",
      "severe", "society", "state", "trend", "unemployment", "violent",
      "wealth">>

TokenPosition(t) ==
    IF \E i \in DOMAIN Collation : Collation[i] = t
    THEN CHOOSE i \in DOMAIN Collation : Collation[i] = t
    ELSE 0

\* a < b for two names given by their tokens
RECURSIVE TextLess(_, _)
TextLess(a, b) ==
    IF b = <<>> THEN FALSE
    ELSE IF a = <<>> THEN TRUE
    ELSE IF Head(a) = Head(b) THEN TextLess(Tail(a), Tail(b))
    ELSE TokenPosition(Head(a)) < TokenPosition(Head(b))


\* the image of a sequence, and the rows / columns of the input file
Range(s) == {s[i] : i \in DOMAIN s}
Rows == DOMAIN df
Cols == DOMAIN columns
Cell(r, c) == df[r].cells[c]

\* a metric cell is a number (four components), NULL, or the characters of
\* a text that read_csv could not parse as a number (three or seven here)
IsText(value) == value # NULL /\ Len(value) # 4

DivZeroText == <<"#", "D", "I", "V", "/", "0", "!">>
PercentText == <<"4", "5", "%">>

\* str.replace('%', '')
RemovePercent(text) == SelectSeq(text, LAMBDA ch : ch # "%")

DigitValue(ch) ==
    CASE ch = "0" -> 0 [] ch = "1" -> 1 [] ch = "2" -> 2 [] ch = "3" -> 3
      [] ch = "4" -> 4 [] ch = "5" -> 5 [] ch = "6" -> 6 [] ch = "7" -> 7
      [] ch = "8" -> 8 [] ch = "9" -> 9 [] OTHER -> -1

\* the number written by a text of decimal digits, NULL for any other text
RECURSIVE ParseDigits(_, _)
ParseDigits(text, acc) ==
    IF text = <<>> THEN Rat(acc)
    ELSE IF DigitValue(Head(text)) < 0 THEN NULL
    ELSE ParseDigits(Tail(text), 10 * acc + DigitValue(Head(text)))

ParseNumber(text) == IF text = <<>> THEN NULL ELSE ParseDigits(text, 0)

\* float(value): the value of a number or of a text of digits, NULL when
\* it raises ValueError
Float(value) == IF IsText(value) THEN ParseNumber(value) ELSE value

----------------------------------------------------------------------------
(* CountyHealthDataProcessor *)

invert_metrics ==
    { <<"infant", "mortality">>, <<"obesity", "rate">>, <<"child", "poverty">>,
      <<"income", "inequality">>, <<"housing", "problems">>,
      <<"food", "insecurity">>, <<"violent", "crime">>,
      <<"unemployment", "rate">>, <<"co2", "per", "capita">>,
      <<"air", "quality", "pm25">> }

\* str.strip('_'): empty tokens at either end disappear with their '_'
RECURSIVE StripUnderscores(_)
StripUnderscores(s) ==
    IF s = <<>> THEN s
    ELSE IF Head(s) = "" THEN StripUnderscores(Tail(s))
    ELSE IF s[Len(s)] = "" THEN StripUnderscores(SubSeq(s, 1, Len(s) - 1))
    ELSE s

Category(parts) == Lower(parts[1])

Subcategory(parts) ==
    LET sub == Lower(parts[2])
    IN  IF sub = "non-profit" THEN "nonprofit" ELSE sub

\* metric name: the segments after the second joined and lower-cased, or
\* the subcategory for a two-segment column, 'keyindicator' removed
MetricName(parts) ==
    LET metric_parts == IF Len(parts) > 2 THEN SubSeqFrom(parts, 3)
                        ELSE <<Subcategory(parts)>>
        lowered == [i \in DOMAIN metric_parts |-> Lower(metric_parts[i])]
        cleaned == [i \in DOMAIN lowered |->
                      IF lowered[i] = "keyindicator" THEN "" ELSE lowered[i]]
    IN  StripUnderscores(cleaned)

MetricId(parts) == <<Category(parts), Subcategory(parts)>> \o MetricName(parts)

HigherIsBetter(metric) == IF metric \notin invert_metrics THEN 1 ELSE 0

\* the metric columns import_from_wide_format parses
ParsedCols == {c \in Cols : Len(columns[c]) >= 2}

\* rows of metric_metadata after drop_duplicates(subset=['metric_id']):
\* the first column of each metric_id supplies the row
MetadataRows ==
    LET ids == {MetricId(columns[c]) : c \in ParsedCols}
        first(id) == CHOOSE c \in ParsedCols :
                        /\ MetricId(columns[c]) = id
                        /\ \A d \in ParsedCols :
                              MetricId(columns[d]) = id => c <= d
    IN  [id \in ids |->
            LET parts == columns[first(id)]
            IN  [category |-> Category(parts),
                 subcategory |-> Subcategory(parts),
                 metric |-> MetricName(parts),
                 higher_is_better |-> HigherIsBetter(MetricName(parts))]]

\* the (row, column) cells that become raw_metrics rows: not null, and
\* float(value) does not raise
RawCells ==
    {rc \in Rows \X ParsedCols :
        Cell(rc[1], rc[2]) # NULL /\ Float(Cell(rc[1], rc[2])) # NULL}
\* int(fips)
IntOf(x) == x[1] \div x[2]
RawKey(rc) == <<IntOf(df[rc[1]].FIPS), MetricId(columns[rc[2]])>>

\* raw_metrics has PRIMARY KEY (fips, metric_id, year)
RawKeysUnique ==
    \A a, b \in RawCells : RawKey(a) = RawKey(b) => a = b

RawRows ==
    [k \in {RawKey(rc) : rc \in RawCells} |->
        LET rc == CHOOSE x \in RawCells : RawKey(x) = k
        IN  Float(Cell(rc[1], rc[2]))]

\* df[['FIPS', 'State', 'County']].drop_duplicates()
CountyTriples == {<<df[r].FIPS, df[r].State, df[r].County>> : r \in Rows}

\* counties has fips INTEGER PRIMARY KEY, state and county NOT NULL and
\* UNIQUE(state, county): the insert of the triples succeeds or fails whole
CountiesInsertable ==
    /\ \A t \in CountyTriples : t[2] # NoText /\ t[3] # NoText
    /\ \A a, b \in CountyTriples :
          (IntOf(a[1]) = IntOf(b[1]) \/ (a[2] = b[2] /\ a[3] = b[3])) => a = b

CountiesRows ==
    [f \in {IntOf(t[1]) : t \in CountyTriples} |->
        LET t == CHOOSE x \in CountyTriples : IntOf(x[1]) = f
        IN  [state |-> t[2], county |-> t[3], state_name |-> t[2]]]

\* create_database_schema: each DROP TABLE IF EXISTS is committed as it is
\* executed, so the four tables go one by one, in the order of the source.
\* The first statement of an execution of the script starts its counters.
DropRawMetrics ==
    /\ raw_metrics' = <<>>
    /\ rank_runs' = 0
    /\ agg_runs' = 0
    /\ main_runs' = main_runs + 1
    /\ pc' = "drop_raw_metrics"
    /\ UNCHANGED <<counties, metric_metadata, aggregated_scores,
                   summary_report, input_vars, other_vars, etl_vars,
                   sqlite_vars>>

CreateDatabaseSchema ==
    /\ pc = "start"
    /\ DropRawMetrics

\* the script executed again after an execution of the script as written
\* (one call of calculate_percentiles, the report exported)
CreateDatabaseSchemaAgain ==
    /\ pc = "exported"
    /\ rank_runs = 1
    /\ main_runs < MaxMainRuns
    /\ DropRawMetrics

DropMetricMetadata ==
    /\ pc = "drop_raw_metrics"
    /\ metric_metadata' = <<>>
    /\ pc' = "drop_metric_metadata"
    /\ UNCHANGED <<counties, raw_metrics, aggregated_scores, summary_report,
                   rank_runs, agg_runs, main_runs, input_vars, other_vars,
                   etl_vars, sqlite_vars>>

DropAggregatedScores ==
    /\ pc = "drop_metric_metadata"
    /\ aggregated_scores' = <<>>
    /\ pc' = "drop_aggregated_scores"
    /\ UNCHANGED <<counties, metric_metadata, raw_metrics, summary_report,
                   rank_runs, agg_runs, main_runs, input_vars, other_vars,
                   etl_vars, sqlite_vars>>

\* DROP TABLE IF EXISTS counties, then the four CREATE TABLE and the four
\* CREATE INDEX, which leave the four tables empty, and the commit
SchemaCreated ==
    /\ pc = "drop_aggregated_scores"
    /\ counties' = <<>>
    /\ pc' = "schema"
    /\ UNCHANGED <<metric_metadata, raw_metrics, aggregated_scores,
                   summary_report, rank_runs, agg_runs, main_runs,
                   input_vars, other_vars, etl_vars, sqlite_vars>>

\* import_from_wide_format: read_csv, then three to_sql inserts, each
\* committed when it succeeds and rolled back when it fails; an exception
\* ends the script.  First the counties.
ImportCounties ==
    /\ pc = "schema"
    /\ \E readable \in BOOLEAN :
          IF ~readable \/ ~CountiesInsertable
          THEN /\ pc' = "failed"
               /\ UNCHANGED counties
          ELSE /\ counties' = CountiesRows
               /\ pc' = "import_counties"
    /\ UNCHANGED <<metric_metadata, raw_metrics, aggregated_scores,
                   summary_report, rank_runs, agg_runs, main_runs,
                   input_vars, other_vars, etl_vars, sqlite_vars>>

\* the metadata rows parsed from the column names
ImportMetricMetadata ==
    /\ pc = "import_counties"
    /\ metric_metadata' = MetadataRows
    /\ pc' = "import_metric_metadata"
    /\ UNCHANGED <<counties, raw_metrics, aggregated_scores, summary_report,
                   rank_runs, agg_runs, main_runs, input_vars, other_vars,
                   etl_vars, sqlite_vars>>

\* the raw values; a repeated key fails the insert of all of them
ImportRawMetrics ==
    /\ pc = "import_metric_metadata"
    /\ IF RawKeysUnique
       THEN raw_metrics' = RawRows /\ pc' = "imported"
       ELSE raw_metrics' = raw_metrics /\ pc' = "failed"
    /\ UNCHANGED <<counties, metric_metadata, aggregated_scores,
                   summary_report, rank_runs, agg_runs, main_runs,
                   input_vars, other_vars, etl_vars, sqlite_vars>>

\* the rows of one metric, as read by SELECT fips, value ... WHERE metric_id
MetricValues(rm, metric_id) ==
    [f \in {k[1] : k \in {x \in DOMAIN rm : x[2] = metric_id}} |->
        rm[<<f, metric_id>>]]

\* polarity ignored: every metric ranked as higher-is-better
PercentileNotInverted(values, fips, higher_is_better) ==
    Times100(RankPct(values, fips))

\* inversion by ranking the negated values
PercentileNegated(values, fips, higher_is_better) ==
    IF higher_is_better = 1
    THEN Times100(RankPct(values, fips))
    ELSE Times100(RankPct([f \in DOMAIN values |-> RNeg(values[f])], fips))

\* the percentile stored for one row of a metric: rank(pct=True) * 100,
\* or (1 - rank(pct=True)) * 100
Percentile(values, fips, higher_is_better) ==
    IF higher_is_better = 1
    THEN Times100(RankPct(values, fips))
    ELSE Times100(FSub(Rat(1), RankPct(values, fips)))

\* metrics selected by the JOIN of metric_metadata and raw_metrics
RankedMetrics(meta, rm) == {k[2] : k \in DOMAIN rm} \cap DOMAIN meta

RankAllMetrics(meta, rm) ==
    [k \in DOMAIN rm |->
        IF k[2] \in RankedMetrics(meta, rm)
        THEN Percentile(MetricValues(rm, k[2]), k[1],
                        meta[k[2]].higher_is_better)
        ELSE rm[k]]

CalculatePercentiles ==
    /\ pc \in {"imported", "ranked"}
    /\ rank_runs < MaxRankRuns
    /\ raw_metrics' = RankAllMetrics(metric_metadata, raw_metrics)
    /\ rank_runs' = rank_runs + 1
    /\ pc' = "ranked"
    /\ UNCHANGED <<counties, metric_metadata, aggregated_scores,
                   summary_report, agg_runs, main_runs, input_vars,
                   other_vars, etl_vars,
                   sqlite_vars>>

\* calculate_percentiles statement by statement: the SELECT of the metrics,
\* and for each metric the SELECT of its values, the ranking and one UPDATE
\* per row. The metrics are taken in any order and their statements may
\* interleave; the loop of the code, one metric after the other, is one of
\* these executions.

\* an UPDATE that leaves the metric out of its WHERE clause
UpdateRowAnyMetric(rm, fips, metric_id, percentile) ==
    [k \in DOMAIN rm |-> IF k[1] = fips THEN percentile ELSE rm[k]]

\* UPDATE raw_metrics SET value = ? WHERE fips = ? AND metric_id = ?
UpdateRow(rm, fips, metric_id, percentile) ==
    [k \in DOMAIN rm |->
        IF k[1] = fips /\ k[2] = metric_id THEN percentile ELSE rm[k]]

RankFrame == UNCHANGED <<counties, metric_metadata, aggregated_scores,
                         summary_report, agg_runs, main_runs, input_vars,
                         etl_vars, sqlite_vars, sanitizer_vars,
                         dashboard_data, nav_vars>>

\* SELECT DISTINCT m.metric_id, m.higher_is_better ... JOIN raw_metrics
RankSelectMetrics ==
    /\ pc = "imported"
    /\ rank_tasks' = [m \in RankedMetrics(metric_metadata, raw_metrics) |->
                         [stage |-> "pending", percentile |-> <<>>, todo |-> {}]]
    /\ pc' = "ranking"
    /\ UNCHANGED <<raw_metrics, rank_runs>>
    /\ RankFrame

\* SELECT fips, value ... WHERE metric_id, and rank(pct=True)
RankReadValues ==
    /\ pc = "ranking"
    /\ \E m \in DOMAIN rank_tasks :
          /\ rank_tasks[m].stage = "pending"
          /\ LET values_df == MetricValues(raw_metrics, m)
             IN  rank_tasks' =
                    [rank_tasks EXCEPT ![m] =
                        [stage |-> "updating",
                         percentile |->
                             [f \in DOMAIN values_df |->
                                 Percentile(values_df, f,
                                    metric_metadata[m].higher_is_better)],
                         todo |-> DOMAIN values_df]]
    /\ UNCHANGED <<pc, raw_metrics, rank_runs>>
    /\ RankFrame

\* one UPDATE of the loop over values_df
RankUpdateRow ==
    /\ pc = "ranking"
    /\ \E m \in DOMAIN rank_tasks :
          /\ rank_tasks[m].stage = "updating"
          /\ \E f \in rank_tasks[m].todo :
                /\ raw_metrics' = UpdateRow(raw_metrics, f, m,
                                            rank_tasks[m].percentile[f])
                /\ rank_tasks' =
                      [rank_tasks EXCEPT ![m] =
                          [stage |-> IF rank_tasks[m].todo = {f}
                                     THEN "done" ELSE "updating",
                           percentile |-> rank_tasks[m].percentile,
                           todo |-> rank_tasks[m].todo \ {f}]]
    /\ UNCHANGED <<pc, rank_runs>>
    /\ RankFrame

\* self.conn.commit() after the last metric
RankCommit ==
    /\ pc = "ranking"
    /\ \A m \in DOMAIN rank_tasks : rank_tasks[m].stage = "done"
    /\ rank_runs' = rank_runs + 1
    /\ pc' = "ranked"
    /\ UNCHANGED <<raw_metrics, rank_tasks>>
    /\ RankFrame

\* calculate_aggregated_scores, in the order of its statements

\* the raw_metrics rows of one county joined to one (category, subcategory)
GroupValues(meta, rm, fips, category, subcategory) ==
    [id \in {k[2] : k \in
               {x \in DOMAIN rm :
                   /\ x[1] = fips
                   /\ x[2] \in DOMAIN meta
                   /\ meta[x[2]].category = category
                   /\ meta[x[2]].subcategory = subcategory}} |->
        rm[<<fips, id>>]]

\* AVG of a group: SQLite adds the values in the order in which it reads
\* the rows.  raw_metrics is scanned by the index of its primary key, a
\* group within it by ascending metric_id; the rows of a level of
\* aggregated_scores are read by ascending rowid, which is the order of
\* their insertion, by ascending name.  f maps the names to the values
AvgByName(f) ==
    LET position(x) == 1 + Cardinality({y \in DOMAIN f : TextLess(y, x)})
    IN  Avg([i \in 1..Cardinality(DOMAIN f) |->
                f[CHOOSE x \in DOMAIN f : position(x) = i]])

\* a row for every county and every subcategory of the catalog, zero when
\* the county holds no value there
SubcategoryScoresDefaulted(meta, rm) ==
    LET groups == {<<k[1], meta[id].category, meta[id].subcategory>> :
                      k \in DOMAIN rm, id \in DOMAIN meta}
    IN  [g \in groups |->
            IF DOMAIN GroupValues(meta, rm, g[1], g[2], g[3]) = {} THEN Rat(0)
            ELSE AvgByName(GroupValues(meta, rm, g[1], g[2], g[3]))]

\* SELECT fips, category, subcategory, AVG(value) ... GROUP BY
SubcategoryScores(meta, rm) ==
    LET groups == {<<k[1], meta[k[2]].category, meta[k[2]].subcategory>> :
                      k \in {x \in DOMAIN rm : x[2] \in DOMAIN meta}}
    IN  [g \in groups |-> AvgByName(GroupValues(meta, rm, g[1], g[2], g[3]))]

\* f"{category}_{subcategory}"
SubcategoryName(category, subcategory) == <<category, subcategory>>

\* SUBSTR(name, 1, INSTR(name, '_') - 1)
CategoryOfName(name) == name[1]

LevelRows(agg, level) == {k \in DOMAIN agg : k[2] = level}

\* category score as the flat mean of the county's metric values
CategoryScoresFlat(agg) ==
    LET rows == LevelRows(agg, "subcategory")
        groups == {<<k[1], CategoryOfName(k[3])>> : k \in rows}
    IN  [g \in groups |->
            AvgByName([id \in {x[2] : x \in {y \in DOMAIN raw_metrics :
                            /\ y[1] = g[1]
                            /\ metric_metadata[y[2]].category = g[2]}} |->
                         raw_metrics[<<g[1], id>>]])]

\* SELECT fips, category, AVG(raw_score) WHERE level = 'subcategory'
CategoryScores(agg) ==
    LET rows == LevelRows(agg, "subcategory")
        groups == {<<k[1], CategoryOfName(k[3])>> : k \in rows}
    IN  [g \in groups |->
            AvgByName([name \in {x[3] : x \in {y \in rows :
                                     /\ y[1] = g[1]
                                     /\ CategoryOfName(y[3]) = g[2]}} |->
                          agg[<<g[1], "subcategory", name>>].raw_score])]

\* SELECT fips, AVG(raw_score) WHERE level = 'category'
OverallScores(agg) ==
    LET rows == LevelRows(agg, "category")
    IN  [f \in {k[1] : k \in rows} |->
            AvgByName([name \in {x[3] : x \in {y \in rows : y[1] = f}} |->
                          agg[<<f, "category", name>>].raw_score])]

\* an upsert that adds the new score to the score the row holds
InsertOrAdd(agg, new) ==
    [k \in DOMAIN agg \cup DOMAIN new |->
        IF k \in DOMAIN new
        THEN [raw_score |-> IF k \in DOMAIN agg
                            THEN FAdd(agg[k].raw_score, new[k]) ELSE new[k],
              percentile_score |-> NULL]
        ELSE agg[k]]

\* each row ranked as it is inserted, among the rows inserted with it
InsertOrReplaceRanked(agg, new) ==
    [k \in DOMAIN agg \cup DOMAIN new |->
        IF k \in DOMAIN new
        THEN [raw_score |-> new[k],
              percentile_score |->
                  Times100(RankPct([f \in {x[1] : x \in {y \in DOMAIN new :
                                                           y[3] = k[3]}} |->
                                       new[<<f, k[2], k[3]>>]], k[1]))]
        ELSE agg[k]]

\* INSERT OR REPLACE INTO aggregated_scores (fips, level, name, raw_score, year)
InsertOrReplace(agg, new) ==
    [k \in DOMAIN agg \cup DOMAIN new |->
        IF k \in DOMAIN new
        THEN [raw_score |-> new[k], percentile_score |-> NULL]
        ELSE agg[k]]

\* the rows of a level ranked together, whatever their name
LevelPercentilesAcrossNames(agg, level) ==
    [k \in DOMAIN agg |->
        IF k[2] = level
        THEN LET level_df == [x \in {y \in DOMAIN agg : y[2] = level} |->
                                agg[x].raw_score]
             IN  [raw_score |-> agg[k].raw_score,
                  percentile_score |-> Times100(RankPct(level_df, k))]
        ELSE agg[k]]

\* percentiles of one level: per name, rank(pct=True) * 100 of raw_score
\* over the rows of that (level, name)
LevelPercentiles(agg, level) ==
    [k \in DOMAIN agg |->
        IF k[2] = level
        THEN LET name_df == [f \in {x[1] : x \in {y \in DOMAIN agg :
                                        y[2] = level /\ y[3] = k[3]}} |->
                               agg[<<f, level, k[3]>>].raw_score]
             IN  [raw_score |-> agg[k].raw_score,
                  percentile_score |->
                      Times100(RankPct(name_df, k[1]))]
        ELSE agg[k]]

AggUnchanged == UNCHANGED <<counties, metric_metadata, raw_metrics,
                            summary_report, rank_runs, main_runs, input_vars, other_vars,
                            etl_vars, sqlite_vars>>

\* the first statements of calculate_aggregated_scores: subcategory scores
SubcategoryScoresWritten ==
    /\ LET scores == SubcategoryScores(metric_metadata, raw_metrics)
       IN  aggregated_scores' =
             InsertOrReplace(aggregated_scores,
               [k \in {<<g[1], "subcategory", SubcategoryName(g[2], g[3])>> :
                          g \in DOMAIN scores} |->
                   scores[<<k[1], k[3][1], k[3][2]>>]])
    /\ agg_runs' = agg_runs + 1
    /\ pc' = "agg_category"
    /\ AggUnchanged

AggSubcategoryScores ==
    /\ pc \in {"imported", "ranked"}
    /\ SubcategoryScoresWritten

\* calculate_aggregated_scores called again on the tables it left
AggSubcategoryScoresAgain ==
    /\ pc = "exported"
    /\ agg_runs < MaxAggRuns
    /\ SubcategoryScoresWritten

AggCategoryScores ==
    /\ pc = "agg_category"
    /\ LET scores == CategoryScores(aggregated_scores)
       IN  aggregated_scores' =
             InsertOrReplace(aggregated_scores,
               [k \in {<<g[1], "category", <<g[2]>> >> : g \in DOMAIN scores} |->
                   scores[<<k[1], k[3][1]>>]])
    /\ pc' = "agg_overall"
    /\ UNCHANGED agg_runs
    /\ AggUnchanged

AggOverallScores ==
    /\ pc = "agg_overall"
    /\ LET scores == OverallScores(aggregated_scores)
       IN  aggregated_scores' =
             InsertOrReplace(aggregated_scores,
               [k \in {<<f, "overall", <<"overall">> >> : f \in DOMAIN scores} |->
                   scores[k[1]]])
    /\ pc' = "pct_subcategory"
    /\ UNCHANGED agg_runs
    /\ AggUnchanged

AggPercentiles(level, here, next) ==
    /\ pc = here
    /\ aggregated_scores' = LevelPercentiles(aggregated_scores, level)
    /\ pc' = next
    /\ UNCHANGED agg_runs
    /\ AggUnchanged

AggPercentilesSubcategory ==
    AggPercentiles("subcategory", "pct_subcategory", "pct_category")
AggPercentilesCategory ==
    AggPercentiles("category", "pct_category", "pct_overall")
AggPercentilesOverall ==
    AggPercentiles("overall", "pct_overall", "aggregated")

\* export_summary_report: counties JOIN aggregated_scores ON fips, written
\* to the report file (ORDER BY state, county, level, name fixes the order
\* of the rows, so the file is given by the set of its rows)
SummaryRows(cnt, agg) ==
    {[fips |-> k[1], state |-> cnt[k[1]].state, county |-> cnt[k[1]].county,
      level |-> k[2], name |-> k[3], raw_score |-> agg[k].raw_score,
      percentile_score |-> agg[k].percentile_score] :
        k \in {x \in DOMAIN agg : x[1] \in DOMAIN cnt}}

ExportSummaryReport ==
    /\ pc = "aggregated"
    /\ summary_report' = SummaryRows(counties, aggregated_scores)
    /\ pc' = "exported"
    /\ UNCHANGED <<counties, metric_metadata, raw_metrics, aggregated_scores,
                   rank_runs, agg_runs, main_runs, input_vars, other_vars, etl_vars,
                   sqlite_vars>>

\* get_county_data_for_dashboard: the subcategory percentiles of one
\* county under the three categories of structured_data
StructuredCategories == {"society", "economy", "nature"}

CountyDataForDashboard(agg, fips) ==
    LET rows == {k \in DOMAIN agg :
                    /\ k[1] = fips
                    /\ k[2] = "subcategory"
                    /\ Len(k[3]) = 2
                    /\ k[3][1] \in StructuredCategories}
    IN  [category \in StructuredCategories |->
            [subcategory \in {Upper(k[3][2]) :
                                k \in {x \in rows : x[3][1] = category}} |->
                LET k == CHOOSE x \in rows : /\ x[3][1] = category
                                              /\ Upper(x[3][2]) = subcategory
                IN  agg[k].percentile_score]]

\* the counties a caller asks for: the counties of the file and another one
QueriedFips == 1..3

GetCountyDataForDashboard ==
    /\ pc = "exported"
    /\ \E fips \in QueriedFips :
          dashboard_data' =
             [fips |-> fips,
              data |-> CountyDataForDashboard(aggregated_scores, fips)]
    /\ pc' = "closed"
    /\ UNCHANGED <<input_vars, chdp_vars, etl_vars, sqlite_vars,
                   sanitizer_vars, rank_tasks, nav_vars>>

----------------------------------------------------------------------------
(* SimpleETL with FlexibleMetricHierarchy and SimpleDataProcessor *)

\* the identity columns _build_from_columns leaves out; those of one
\* segment (FIPS, State, County) have too few segments anyway
IdentityColumns ==
    {<<"county", "fips">>, <<"county", "name">>, <<"state", "code">>,
     <<"state", "name">>, <<"state", "fips">>}

\* the third segment compared as written, not upper-cased
BuildFromColumnsExactCase(cols) ==
    [col \in {c \in Range(cols) \ IdentityColumns : Len(c) >= 2} |->
        LET top_level == Upper(col[1])
            sub_category == Upper(col[2])
            index == Len(col) = 2 \/ col[3] = sub_category
        IN  [top_level |-> top_level,
             sub_category |-> sub_category,
             metric_name |-> IF index THEN <<sub_category, "INDEX">>
                             ELSE SubSeqFrom(col, 3),
             full_name |-> col,
             requires_calculation |-> index]]

\* FlexibleMetricHierarchy._build_from_columns: column name -> definition
BuildFromColumns(cols) ==
    [col \in {c \in Range(cols) \ IdentityColumns : Len(c) >= 2} |->
        LET top_level == Upper(col[1])
            sub_category == Upper(col[2])
            index == Len(col) = 2 \/ Upper(col[3]) = sub_category
        IN  [top_level |-> top_level,
             sub_category |-> sub_category,
             metric_name |-> IF index THEN <<sub_category, "INDEX">>
                             ELSE SubSeqFrom(col, 3),
             full_name |-> col,
             requires_calculation |-> index]]

\* FlexibleMetricHierarchy.is_index_metric
IsIndexMetric(metrics, col) ==
    IF col \in DOMAIN metrics THEN metrics[col].requires_calculation ELSE FALSE

\* the keys of a dict filled in the order of a list: first occurrences
RECURSIVE FirstOccurrences(_)
FirstOccurrences(s) ==
    IF s = <<>> THEN <<>>
    ELSE LET front == FirstOccurrences(SubSeq(s, 1, Len(s) - 1))
         IN  IF s[Len(s)] \in Range(front) THEN front
             ELSE Append(front, s[Len(s)])

\* a hierarchy that lists a metric under every sub-category of its top level
BuildHierarchyAnySubCategory(cols, metrics) ==
    LET keys == SelectSeq(FirstOccurrences(cols),
                          LAMBDA c : c \in DOMAIN metrics)
        tops == {metrics[c].top_level : c \in DOMAIN metrics}
        subs(t) == {metrics[c].sub_category :
                       c \in {d \in DOMAIN metrics : metrics[d].top_level = t}}
    IN  [t \in tops |->
            [sb \in subs(t) |->
                SelectSeq(keys, LAMBDA c : metrics[c].top_level = t)]]

\* FlexibleMetricHierarchy._build_hierarchy: top level -> sub-category ->
\* list of metric keys (column names), in the order of the definitions
BuildHierarchy(cols, metrics) ==
    LET keys == SelectSeq(FirstOccurrences(cols),
                          LAMBDA c : c \in DOMAIN metrics)
        tops == {metrics[c].top_level : c \in DOMAIN metrics}
        subs(t) == {metrics[c].sub_category :
                       c \in {d \in DOMAIN metrics : metrics[d].top_level = t}}
    IN  [t \in tops |->
            [sb \in subs(t) |->
                SelectSeq(keys, LAMBDA c : /\ metrics[c].top_level = t
                                           /\ metrics[c].sub_category = sb)]]

\* decimal digits of a natural number: astype(str) of an integer
RECURSIVE Digits(_)
Digits(n) ==
    LET d == <<"0", "1", "2", "3", "4", "5", "6", "7", "8", "9">>
    IN  IF n < 10 THEN <<d[n + 1]>> ELSE Append(Digits(n \div 10), d[(n % 10) + 1])

\* str.zfill(width)
RECURSIVE ZFill(_, _)
ZFill(s, width) == IF Len(s) >= width THEN s ELSE ZFill(<<"0">> \o s, width)

\* str.replace('.0', ''): every "." followed by "0" is removed
RECURSIVE RemoveDotZero(_)
RemoveDotZero(s) ==
    IF Len(s) < 2 THEN s
    ELSE IF s[1] = "." /\ s[2] = "0" THEN RemoveDotZero(SubSeqFrom(s, 3))
    ELSE <<s[1]>> \o RemoveDotZero(Tail(s))

FipsWidth == 5

\* the FIPS column is read as float64 when a row of the file lacks its
\* identifier, as int64 otherwise
FipsIsFloat == \E r \in Rows : df[r].FIPS = NULL

\* astype(str) of an identifier: 'nan', '1001.0' or '1001'
FipsText(fips) ==
    IF fips = NULL THEN <<"n", "a", "n">>
    ELSE IF FipsIsFloat THEN Digits(IntOf(fips)) \o <<".", "0">>
    ELSE Digits(IntOf(fips))

\* zero-padding that cuts longer identifiers to the width
NormalizeFipsTruncating(text) ==
    LET padded == ZFill(RemoveDotZero(text), FipsWidth)
    IN  SubSeq(padded, Len(padded) - FipsWidth + 1, Len(padded))

\* .str.replace('.0', '').str.zfill(5)
NormalizeFips(text) == ZFill(RemoveDotZero(text), FipsWidth)

\* astype(str).str.replace('.0', '').str.zfill(5)
CountyFips(fips) == NormalizeFips(FipsText(fips))

\* state_mapping.get(state_name), else state_name.upper().strip()
StateCode(state_name) ==
    CASE state_name = "Alabama" -> "AL"
      [] state_name = "Alaska" -> "AK"
      [] state_name = "Ohio" -> "OH"
      [] state_name = "alabama" -> "ALABAMA"
      [] OTHER -> state_name

\* str.replace(r'\s+County\s*$', '').str.strip().str.title(), on the
\* county names of the input files
CountyName(county) ==
    CASE county = "Autauga County" -> "Autauga"
      [] county = "autauga" -> "Autauga"
      [] county = "Baldwin County" -> "Baldwin"
      [] county = "baldwin" -> "Baldwin"
      [] county = "Barbour County" -> "Barbour"
      [] county = "Bibb County" -> "Bibb"
      [] county = "Blount County" -> "Blount"
      [] OTHER -> county

\* clean_data: rows without an identifier, state or county are dropped,
\* identifiers become zero-padded strings, names are standardised
CleanData(rows) ==
    LET kept == SelectSeq(rows, LAMBDA row : /\ row.FIPS # NULL
                                             /\ row.State # NoText
                                             /\ row.County # NoText)
    IN  [i \in DOMAIN kept |->
            [county_fips |-> CountyFips(kept[i].FIPS),
             state_name |-> kept[i].State,
             county_name |-> CountyName(kept[i].County),
             state_code |-> StateCode(kept[i].State),
             cells |-> kept[i].cells]]

\* df[['county_fips', 'county_name', 'state_code', 'state_name']]
\*   .drop_duplicates(): every row once
CountyRecords(rows) ==
    SetToBag({[fips_code |-> rows[i].county_fips,
               county_name |-> rows[i].county_name,
               state_code |-> rows[i].state_code,
               state_name |-> rows[i].state_name] : i \in DOMAIN rows})

\* (column, row) pairs in the order of melt() and of the records loop
CellOrder(rows, cols) ==
    [i \in 1..(Len(cols) * Len(rows)) |->
        <<((i - 1) \div Len(rows)) + 1, ((i - 1) % Len(rows)) + 1>>]

PresentCells(rows, cols) ==
    SelectSeq(CellOrder(rows, cols), LAMBDA p : rows[p[2]].cells[p[1]] # NULL)

\* metric_data[metric_col] after dropna(): row index -> value
ColumnValues(rows, c) ==
    [r \in {x \in DOMAIN rows : rows[x].cells[c] # NULL} |->
        rows[r].cells[c]]

\* the percentile load_data stores for one row of one metric column
ETLPercentile(rows, c, r) == Times100(RankPct(ColumnValues(rows, c), r))

\* hierarchy info of a column, with the fallback parsing
ETLHierarchyInfo(hierarchy, col) ==
    IF col \in DOMAIN hierarchy
    THEN [top_level |-> hierarchy[col].top_level,
          sub_category |-> hierarchy[col].sub_category,
          metric_name |-> hierarchy[col].metric_name]
    ELSE [top_level |-> IF Len(col) > 0 THEN col[1] ELSE "OTHER",
          sub_category |-> IF Len(col) > 1 THEN col[2] ELSE "OTHER",
          metric_name |-> col]

ComputedRecords(rows, cols, hierarchy, data_year) ==
    LET present == PresentCells(rows, cols)
    IN  [i \in DOMAIN present |->
            LET c == present[i][1]
                r == present[i][2]
                info == ETLHierarchyInfo(hierarchy, cols[c])
            IN  [county_fips |-> rows[r].county_fips,
                 county_name |-> rows[r].county_name,
                 state_code |-> rows[r].state_code,
                 top_level |-> info.top_level,
                 sub_category |-> info.sub_category,
                 metric_name |-> info.metric_name,
                 metric_value |-> rows[r].cells[c],
                 percentile_rank |-> ETLPercentile(rows, c, r),
                 data_year |-> data_year]]

RawRecords(rows, cols, data_year) ==
    LET present == PresentCells(rows, cols)
    IN  [i \in DOMAIN present |->
            [county_fips |-> rows[present[i][2]].county_fips,
             county_name |-> rows[present[i][2]].county_name,
             state_code |-> rows[present[i][2]].state_code,
             metric_name |-> cols[present[i][1]],
             metric_value |-> rows[present[i][2]].cells[present[i][1]],
             data_year |-> data_year]]

DataYears == {2023}

\* run_pipeline: build the hierarchy, clean, then load_data, whose to_sql
\* calls commit as they go.  to_sql('counties', if_exists='replace') is
\* three commits: DROP TABLE counties, CREATE TABLE counties, the INSERTs.
\* First the hierarchy and the DROP: the table is gone.
ReplaceCountiesDrop ==
    /\ hierarchy_metrics' = BuildFromColumns(columns)
    /\ etl_hierarchy' = BuildHierarchy(columns, BuildFromColumns(columns))
    /\ etl_counties' = EmptyBag
    /\ pc' = "drop_counties"
    /\ UNCHANGED <<etl_raw_metrics, computed_metrics, etl_runs, input_vars,
                   other_vars, chdp_vars, sqlite_vars>>

RunPipeline ==
    /\ pc = "start"
    /\ ReplaceCountiesDrop

\* run_pipeline called again with the same file and year
RunPipelineAgain ==
    /\ pc = "etl_done"
    /\ etl_runs < MaxEtlRuns
    /\ ReplaceCountiesDrop

\* CREATE TABLE counties: the table is there again, without a row
ReplaceCountiesCreate ==
    /\ pc = "drop_counties"
    /\ pc' = "create_counties"
    /\ UNCHANGED <<etl_vars, input_vars, other_vars, chdp_vars, sqlite_vars>>

\* the INSERTs of the counties
LoadCounties ==
    /\ pc = "create_counties"
    /\ etl_counties' = CountyRecords(CleanData(df))
    /\ pc' = "load_counties"
    /\ UNCHANGED <<hierarchy_metrics, etl_hierarchy, etl_raw_metrics,
                   computed_metrics, etl_runs, input_vars, other_vars,
                   chdp_vars, sqlite_vars>>

\* raw_metrics, appended
LoadRawMetrics ==
    /\ pc = "load_counties"
    /\ \E data_year \in DataYears :
          etl_raw_metrics' =
              etl_raw_metrics \o RawRecords(CleanData(df), columns, data_year)
    /\ pc' = "load_raw_metrics"
    /\ UNCHANGED <<hierarchy_metrics, etl_hierarchy, etl_counties,
                   computed_metrics, etl_runs, input_vars, other_vars,
                   chdp_vars, sqlite_vars>>

\* computed_metrics, appended when there is a record; the call returns
LoadComputedMetrics ==
    /\ pc = "load_raw_metrics"
    /\ \E data_year \in DataYears :
          computed_metrics' =
              computed_metrics
                \o ComputedRecords(CleanData(df), columns, hierarchy_metrics,
                                   data_year)
    /\ etl_runs' = etl_runs + 1
    /\ pc' = "etl_done"
    /\ UNCHANGED <<hierarchy_metrics, etl_hierarchy, etl_counties,
                   etl_raw_metrics, input_vars, other_vars, chdp_vars,
                   sqlite_vars>>

----------------------------------------------------------------------------
(* create_sqlite_db_v2 and fix_counties_table, on the database file of
   SimpleETL (county_health.db) *)

\* the columns the view computed_metrics selects, in the order of its
\* UNION ALL, with top_level, sub_category and metric_name
ViewMetrics ==
    <<[column |-> <<"Society", "HEALTH">>, top_level |-> "SOCIETY",
       sub_category |-> "HEALTH", metric_name |-> "Health Score"],
      [column |-> <<"Society", "WEALTH">>, top_level |-> "SOCIETY",
       sub_category |-> "WEALTH", metric_name |-> "Wealth Score"],
      [column |-> <<"Society", "EDUCATIONINDEX">>, top_level |-> "SOCIETY",
       sub_category |-> "EDUCATIONINDEX", metric_name |-> "Education Index"],
      [column |-> <<"Society", "COMMUNITYINDEX">>, top_level |-> "SOCIETY",
       sub_category |-> "COMMUNITYINDEX", metric_name |-> "Community Index"],
      [column |-> <<"Society", "POPULATION">>, top_level |-> "SOCIETY",
       sub_category |-> "POPULATION", metric_name |-> "Population Score"],
      [column |-> <<"Economy", "Business">>, top_level |-> "ECONOMY",
       sub_category |-> "BUSINESS", metric_name |-> "Business Score"],
      [column |-> <<"Economy", "GOVERNMENT">>, top_level |-> "ECONOMY",
       sub_category |-> "GOVERNMENT", metric_name |-> "Government Score"],
      [column |-> <<"Economy", "NON-PROFIT">>, top_level |-> "ECONOMY",
       sub_category |-> "NON-PROFIT", metric_name |-> "Non-Profit Score"],
      [column |-> <<"Economy", "EMPLOYMENT">>, top_level |-> "ECONOMY",
       sub_category |-> "EMPLOYMENT", metric_name |-> "Employment Score"],
      [column |-> <<"Economy", "ENERGY">>, top_level |-> "ECONOMY",
       sub_category |-> "ENERGY", metric_name |-> "Energy Score"],
      [column |-> <<"Nature", "PLANET">>, top_level |-> "NATURE",
       sub_category |-> "PLANET", metric_name |-> "Planet Score"]>>

\* the one column the view names between double quotes: where the table
\* lacks it, SQLite reads the name as a string literal
QuotedInView == {8}

\* SQLite resolves a column name without regard to case
SameColumnName(a, b) ==
    /\ Len(a) = Len(b)
    /\ \A i \in DOMAIN a : Lower(a[i]) = Lower(b[i])

ColumnsNamed(cols, name) == {c \in DOMAIN cols : SameColumnName(cols[c], name)}

\* the SELECT on the view compiles: every unquoted column exists
ViewReadable(cols) ==
    \A v \in DOMAIN ViewMetrics :
        v \notin QuotedInView => ColumnsNamed(cols, ViewMetrics[v].column) # {}

\* the rows of one SELECT of the view
ViewSelect(rows, cols, v) ==
    LET named == ColumnsNamed(cols, ViewMetrics[v].column)
        value(r) == IF named = {} THEN ViewMetrics[v].column
                    ELSE rows[r].cells[CHOOSE c \in named : TRUE]
        kept == SelectSeq([r \in DOMAIN rows |-> r],
                          LAMBDA r : value(r) # NULL)
    IN  [i \in DOMAIN kept |->
            [county_fips |-> rows[kept[i]].FIPS,
             top_level |-> ViewMetrics[v].top_level,
             sub_category |-> ViewMetrics[v].sub_category,
             metric_name |-> ViewMetrics[v].metric_name,
             metric_value |-> value(kept[i]),
             percentile_rank |-> Rat(50)]]

\* the rows of the view computed_metrics over county_data
RECURSIVE ViewRowsUpTo(_, _, _)
ViewRowsUpTo(rows, cols, v) ==
    IF v = 0 THEN <<>>
    ELSE ViewRowsUpTo(rows, cols, v - 1) \o ViewSelect(rows, cols, v)

ViewRows(rows, cols) == ViewRowsUpTo(rows, cols, Len(ViewMetrics))

\* CREATE TABLE counties AS SELECT CAST(FIPS AS INTEGER), County, State,
\* State FROM county_data WHERE FIPS, County and State are not null; the
\* SELECT has no DISTINCT, a row of county_data gives a row of counties
CountiesRecord(row) ==
    [fips_code |-> IntOf(row.FIPS), county_name |-> row.County,
     state_code |-> row.State, state_name |-> row.State]

CountiesFromCountyData(rows) ==
    LET kept == {x \in DOMAIN rows : /\ rows[x].FIPS # NULL
                                     /\ rows[x].County # NoText
                                     /\ rows[x].State # NoText}
    IN  [rec \in {CountiesRecord(rows[r]) : r \in kept} |->
            Cardinality({r \in kept : CountiesRecord(rows[r]) = rec})]

\* create_database_from_csv: an existing database file is copied to a
\* backup and removed, and the tables of SimpleETL with it
DatabaseRemoved ==
    /\ county_data' = <<>>
    /\ metric_percentiles' = <<>>
    /\ etl_counties' = EmptyBag
    /\ etl_raw_metrics' = <<>>
    /\ computed_metrics' = <<>>
    /\ pc' = "db_removed"
    /\ UNCHANGED <<hierarchy_metrics, etl_hierarchy, etl_runs, input_vars,
                   other_vars, chdp_vars>>

\* no database file yet: nothing to remove
CreateDatabaseFromCsv ==
    /\ pc = "start"
    /\ DatabaseRemoved

\* create_database_from_csv on the database file run_pipeline has filled
CreateDatabaseFromCsvOverEtl ==
    /\ pc = "etl_done"
    /\ DatabaseRemoved

\* read_csv, which raises when the file cannot be read and ends the call
\* with the database removed; then the CREATE TABLE of
\* to_sql('county_data'): the table is there without a row
CreateCountyData ==
    /\ pc = "db_removed"
    /\ \E readable \in BOOLEAN :
          pc' = IF readable THEN "create_county_data" ELSE "csv_failed"
    /\ UNCHANGED <<etl_vars, input_vars, other_vars, chdp_vars, sqlite_vars>>

\* the INSERTs of to_sql('county_data')
CountyDataWritten ==
    /\ pc = "create_county_data"
    /\ county_data' = df
    /\ pc' = "county_data"
    /\ UNCHANGED <<metric_percentiles, etl_vars, input_vars, other_vars,
                   chdp_vars>>

\* DROP TABLE IF EXISTS counties; CREATE TABLE counties AS SELECT
CreateCountiesTable ==
    /\ pc = "county_data"
    /\ etl_counties' = CountiesFromCountyData(county_data)
    /\ pc' = "counties_table"
    /\ UNCHANGED <<hierarchy_metrics, etl_hierarchy, etl_raw_metrics,
                   computed_metrics, etl_runs, input_vars, other_vars,
                   chdp_vars, sqlite_vars>>

\* the indexes and CREATE VIEW computed_metrics, then the verification
\* queries: the one on the view raises when the view cannot be read, and
\* the function ends there
CreateViewAndVerify ==
    /\ pc = "counties_table"
    /\ IF ViewReadable(columns)
       THEN /\ computed_metrics' = ViewRows(county_data, columns)
            /\ pc' = "db_created"
       ELSE /\ UNCHANGED computed_metrics
            /\ pc' = "db_failed"
    /\ UNCHANGED <<hierarchy_metrics, etl_hierarchy, etl_counties,
                   etl_raw_metrics, etl_runs, input_vars, other_vars,
                   chdp_vars, sqlite_vars>>

\* fix_counties_table: DROP TABLE IF EXISTS counties, committed as executed
FixDropCounties ==
    /\ pc \in {"db_created", "db_failed"}
    /\ etl_counties' = EmptyBag
    /\ pc' = "fix_drop_counties"
    /\ UNCHANGED <<hierarchy_metrics, etl_hierarchy, etl_raw_metrics,
                   computed_metrics, etl_runs, input_vars, other_vars,
                   chdp_vars, sqlite_vars>>

\* fix_counties_table: CREATE TABLE counties AS SELECT, the same query
FixCountiesTable ==
    /\ pc = "fix_drop_counties"
    /\ etl_counties' = CountiesFromCountyData(county_data)
    /\ pc' = "db_fixed"
    /\ UNCHANGED <<hierarchy_metrics, etl_hierarchy, etl_raw_metrics,
                   computed_metrics, etl_runs, input_vars, other_vars,
                   chdp_vars, sqlite_vars>>

\* valid_data = df[['FIPS', col]].dropna(): row index -> value
ValidData(rows, c) ==
    [r \in {x \in DOMAIN rows : rows[x].FIPS # NULL /\ rows[x].cells[c] # NULL} |->
        rows[r].cells[c]]

\* rows written by INSERT OR REPLACE, the last row of a key winning
PercentileRows(rows, cols) ==
    LET cells == {rc \in (DOMAIN rows) \X (DOMAIN cols) :
                     rc[1] \in DOMAIN ValidData(rows, rc[2])}
        key(rc) == <<rows[rc[1]].FIPS, cols[rc[2]]>>
    IN  [k \in {key(rc) : rc \in cells} |->
            LET rc == CHOOSE x \in cells :
                        /\ key(x) = k
                        /\ \A y \in cells : key(y) = k => y[1] <= x[1]
            IN  [metric_value |-> rows[rc[1]].cells[rc[2]],
                 percentile_rank |->
                     Times100(RankPct(ValidData(rows, rc[2]), rc[1]))]]

\* calculate_percentiles of create_sqlite_db_v2, a function of its own: it
\* reads county_data, whatever became of the view
SqliteCalculatePercentiles ==
    /\ pc \in {"db_created", "db_failed", "db_fixed"}
    /\ LET new == PercentileRows(county_data, columns)
       IN  metric_percentiles' =
             [k \in DOMAIN metric_percentiles \cup DOMAIN new |->
                 IF k \in DOMAIN new THEN new[k] ELSE metric_percentiles[k]]
    /\ pc' = "pct_done"
    /\ UNCHANGED <<input_vars, other_vars, chdp_vars, etl_vars, county_data>>

----------------------------------------------------------------------------
(* run_simple_etl *)

\* state_map.get(state_name), else state_name[:2]
SimpleStateCode(state_name) ==
    CASE state_name = "Alabama" -> "AL"
      [] state_name = "Alaska" -> "AK"
      [] state_name = "Ohio" -> "Oh"
      [] state_name = "alabama" -> "al"
      [] OTHER -> state_name

\* astype(str).str.title(); a missing name reads 'nan'
Title(county) ==
    CASE county = NoText -> "Nan"
      [] county = "autauga" -> "Autauga"
      [] county = "baldwin" -> "Baldwin"
      [] OTHER -> county

\* the frame run_simple_etl returns, by row label: the rows whose
\* county_fips, county_name and state_code are not null after the cleaning
SimpleEtlFrame(rows) ==
    [i \in {r \in DOMAIN rows : rows[r].State # NoText} |->
        [county_fips |-> CountyFips(rows[i].FIPS),
         state_name |-> rows[i].State,
         county_name |-> Title(rows[i].County),
         state_code |-> SimpleStateCode(rows[i].State),
         cells |-> rows[i].cells]]

RunSimpleEtl ==
    /\ pc = "start"
    /\ simple_etl_df' = SimpleEtlFrame(df)
    /\ pc' = "simple_done"
    /\ UNCHANGED <<input_vars, chdp_vars, etl_vars, sqlite_vars, loaded_df,
                   reader_vars, nav_vars>>

----------------------------------------------------------------------------
(* data_loader.load_data *)

\* astype(str).str.replace('%', '').replace('#DIV/0!', '').replace('nan', '')
\* and pd.to_numeric(errors='coerce')
ToNumeric(value) ==
    IF value = NULL THEN NULL
    ELSE IF ~IsText(value) THEN value
    ELSE LET text == RemovePercent(value)
         IN  IF text = DivZeroText THEN NULL ELSE ParseNumber(text)

main_categories ==
    {<<"Health", "Overall">>, <<"Wealth", "Overall">>,
     <<"Education", "Overall">>, <<"Community", "Overall">>}

\* the frame load_data returns, by row label; a file without one of the
\* main category columns raises KeyError and gives the empty frame
LoadedFrame(rows, cols) ==
    IF ~(main_categories \subseteq Range(cols)) THEN <<>>
    ELSE LET main == {c \in DOMAIN cols : cols[c] \in main_categories}
             kept == {r \in DOMAIN rows :
                        /\ rows[r].FIPS # NULL
                        /\ rows[r].State # NoText
                        /\ rows[r].County # NoText
                        /\ \E c \in main : ToNumeric(rows[r].cells[c]) # NULL}
         IN  [i \in kept |->
                 [FIPS |-> rows[i].FIPS, State |-> rows[i].State,
                  County |-> rows[i].County,
                  cells |-> [c \in DOMAIN cols |-> ToNumeric(rows[i].cells[c])]]]

LoadData ==
    /\ pc = "start"
    /\ loaded_df' = LoadedFrame(df, columns)
    /\ pc' = "loaded"
    /\ UNCHANGED <<input_vars, chdp_vars, etl_vars, sqlite_vars,
                   simple_etl_df, reader_vars, nav_vars>>

----------------------------------------------------------------------------
(* The dashboard: drill-down state and navigation history *)

\* None in a field of the drill-down state; the texts of the other fields
\* are sequences of tokens, a column-style name with its tokens joined by
\* "_" and a display name with " " tokens between its words
None == <<"None">>

\* the state the layout starts with and Reset returns to
Overview ==
    [level |-> "overview", selected_state |-> None, selected_county |-> None,
     selected_category |-> None, selected_metric |-> None]

\* the columns of the frame load_data returned: those of the file, or the
\* four main category columns of the empty frame
LoadedColumns(cols) ==
    IF main_categories \subseteq Range(cols) THEN cols
    ELSE <<<<"Health", "Overall">>, <<"Wealth", "Overall">>,
           <<"Education", "Overall">>, <<"Community", "Overall">>>>

\* get_category_metrics: col.startswith(category + "_")
GetCategoryMetrics(cols, category) ==
    SelectSeq(cols, LAMBDA col : /\ Len(col) > Len(category)
                                 /\ SubSeq(col, 1, Len(category)) = category)

\* get_category_sub_metrics: without the columns ending in _Overall
GetCategorySubMetrics(cols, category) ==
    SelectSeq(GetCategoryMetrics(cols, category),
              LAMBDA col : col[Len(col)] # "Overall")

\* metric.replace('_', ' ')
RECURSIVE Spaced(_)
Spaced(tokens) ==
    IF Len(tokens) <= 1 THEN tokens
    ELSE <<tokens[1], " ">> \o Spaced(Tail(tokens))

\* get_friendly_metric_name: the entries of name_mapping that are not the
\* metric with spaces for underscores, and the fallback
GetFriendlyMetricName(col) ==
    LET metric == IF Len(col) >= 2 THEN Tail(col) ELSE col
    IN  CASE metric = <<"Severe", "Housing", "Problems">> ->
                <<"Housing", " ", "Problems">>
          [] metric = <<"Residential", "Internet", "Service">> ->
                <<"Internet", " ", "Access">>
          [] metric = <<"Violent", "Crime", "Rate">> -> <<"Crime", " ", "Rate">>
          [] OTHER -> Spaced(metric)

\* display_name.lower()
LowerText(text) == [i \in DOMAIN text |-> Lower(text[i])]

\* the column display_to_column gives for a clicked display name: the exact
\* key, else the first key that matches without case; None without a match.
\* A key filled twice keeps the column filled last.
MatchedColumn(sub_metrics, clicked) ==
    LET ColumnOf(name) ==
            sub_metrics[CHOOSE i \in DOMAIN sub_metrics :
                           /\ GetFriendlyMetricName(sub_metrics[i]) = name
                           /\ \A j \in DOMAIN sub_metrics :
                                 GetFriendlyMetricName(sub_metrics[j]) = name
                                    => j <= i]
        exact == {i \in DOMAIN sub_metrics :
                     GetFriendlyMetricName(sub_metrics[i]) = clicked}
        nocase == {i \in DOMAIN sub_metrics :
                      LowerText(GetFriendlyMetricName(sub_metrics[i]))
                         = LowerText(clicked)}
    IN  IF exact # {} THEN ColumnOf(clicked)
        ELSE IF nocase # {}
             THEN ColumnOf(GetFriendlyMetricName(
                     sub_metrics[CHOOSE i \in nocase :
                                    \A j \in nocase : i <= j]))
             ELSE None

\* nav_history.append(new_state) when the handler found a change
Appended(nav_history, new_state, changed) ==
    IF changed THEN Append(nav_history, new_state) ELSE nav_history

\* manage_navigation: <<drill-down-state, navigation-history,
\* back-button.disabled>>; trigger is "none" for the call at page load
ManageNavigation(trigger, current_state, nav_history) ==
    LET history == IF nav_history = <<>> THEN <<Overview>> ELSE nav_history
    IN  CASE trigger = "reset-button" -> <<Overview, <<Overview>>, TRUE>>
          [] trigger = "back-button" /\ Len(history) > 1 ->
                LET popped == SubSeq(history, 1, Len(history) - 1)
                IN  <<popped[Len(popped)], popped, Len(popped) <= 1>>
          [] OTHER -> <<current_state, history, Len(history) <= 1>>

\* handle_manual_changes: <<drill-down-state, navigation-history>>
HandleManualChanges(view_level, selected_state, selected_county, selected_category, current_state, nav_history) ==
    LET new_state ==
            [level |-> view_level,
             selected_state |-> selected_state,
             selected_county |-> selected_county,
             selected_category |-> selected_category,
             selected_metric |-> IF view_level = "metric"
                                 THEN current_state.selected_metric ELSE None]
        last == nav_history[Len(nav_history)]
    IN  <<new_state,
          Appended(nav_history, new_state,
                   \/ nav_history = <<>>
                   \/ last.level # new_state.level
                   \/ last.selected_state # new_state.selected_state
                   \/ last.selected_county # new_state.selected_county
                   \/ last.selected_category # new_state.selected_category)>>

\* handle_main_chart_clicks; df_columns are the columns of the loaded frame
HandleMainChartClicks(df_columns, clicked_data, current_state, nav_history) ==
    LET category == current_state.selected_category
        matched_column ==
            MatchedColumn(GetCategorySubMetrics(df_columns, category),
                          clicked_data.theta)
        new_state ==
            IF "theta" \notin DOMAIN clicked_data THEN current_state
            ELSE IF current_state.level = "overview"
            THEN [current_state EXCEPT !.level = "category",
                                       !.selected_category = clicked_data.theta,
                                       !.selected_metric = None]
            ELSE IF current_state.level = "category"
                    /\ category # None /\ matched_column # None
            THEN [current_state EXCEPT !.level = "metric",
                                       !.selected_metric = Tail(matched_column)]
            ELSE current_state
    IN  <<new_state,
          Appended(nav_history, new_state, new_state # current_state)>>

\* handle_overview_chart_clicks
HandleOverviewChartClicks(clicked_data, current_state, nav_history) ==
    LET new_state ==
            IF current_state.level = "overview" /\ "x" \in DOMAIN clicked_data
            THEN [current_state EXCEPT !.selected_state = clicked_data.x,
                                       !.selected_county = None,
                                       !.selected_category = None,
                                       !.selected_metric = None]
            ELSE current_state
    IN  <<new_state,
          Appended(nav_history, new_state, new_state # current_state)>>

\* handle_top_counties_chart_clicks; x is given as clicked_data['x']
\* split at ', '
HandleTopCountiesChartClicks(clicked_data, current_state, nav_history) ==
    LET new_state ==
            IF /\ current_state.level = "overview"
               /\ "x" \in DOMAIN clicked_data
               /\ Len(clicked_data.x) = 2
            THEN [current_state EXCEPT !.selected_state = clicked_data.x[2],
                                       !.selected_county = clicked_data.x[1],
                                       !.selected_category = None,
                                       !.selected_metric = None]
            ELSE current_state
    IN  <<new_state,
          Appended(nav_history, new_state, new_state # current_state)>>

\* the events of a session, from small sets
ViewLevels == {"overview", "category", "metric"}

StateValues == {None, <<"AL">>}

CountyValues == {None}

CategoryValues == {None, <<"Health">>, <<"Community">>}

\* a category, display names in and out of the case of the mapping, the
\* name of a column that the mapping renames, and a point without theta
MainClicks ==
    {[theta |-> t] : t \in {<<"Community">>, <<"life", " ", "expectancy">>,
                            <<"Crime", " ", "Rate">>,
                            <<"Violent", " ", "Crime", " ", "Rate">>}}
      \cup {[y |-> <<"AL">>]}

OverviewClicks == {[x |-> <<"AL">>], [y |-> <<"AL">>]}

TopCountiesClicks ==
    {[x |-> <<<<"Autauga">>, <<"AL">>>>], [x |-> <<<<"Autauga">>>>]}

NavFrame == UNCHANGED <<input_vars, chdp_vars, etl_vars, sqlite_vars,
                        sanitizer_vars, reader_vars>>

\* the stores and the Back button after a callback returned
NavOutputs(state, history) ==
    /\ Len(history) <= MaxHistory
    /\ drill_down_state' = state
    /\ navigation_history' = history

\* the call of manage_navigation when the page is loaded
PageLoad ==
    /\ pc = "loaded"
    /\ LET out == ManageNavigation("none", drill_down_state, navigation_history)
       IN  /\ NavOutputs(out[1], out[2])
           /\ back_disabled' = out[3]
    /\ pc' = "serving"
    /\ NavFrame

ResetClick ==
    /\ pc = "serving"
    /\ LET out == ManageNavigation("reset-button", drill_down_state,
                                   navigation_history)
       IN  /\ NavOutputs(out[1], out[2])
           /\ back_disabled' = out[3]
    /\ UNCHANGED pc
    /\ NavFrame

\* the callback for back-button.n_clicks
BackClick ==
    /\ pc = "serving"
    /\ LET out == ManageNavigation("back-button", drill_down_state,
                                   navigation_history)
       IN  /\ NavOutputs(out[1], out[2])
           /\ back_disabled' = out[3]
    /\ UNCHANGED pc
    /\ NavFrame

ManualChange ==
    /\ pc = "serving"
    /\ \E view_level \in ViewLevels, selected_state \in StateValues,
          selected_county \in CountyValues, selected_category \in CategoryValues :
          LET out == HandleManualChanges(view_level, selected_state,
                        selected_county, selected_category,
                        drill_down_state, navigation_history)
          IN  NavOutputs(out[1], out[2])
    /\ UNCHANGED <<pc, back_disabled>>
    /\ NavFrame

MainChartClick ==
    /\ pc = "serving"
    /\ \E main_click \in MainClicks :
          LET out == HandleMainChartClicks(LoadedColumns(columns), main_click,
                        drill_down_state, navigation_history)
          IN  NavOutputs(out[1], out[2])
    /\ UNCHANGED <<pc, back_disabled>>
    /\ NavFrame

OverviewChartClick ==
    /\ pc = "serving"
    /\ \E overview_click \in OverviewClicks :
          LET out == HandleOverviewChartClicks(overview_click,
                        drill_down_state, navigation_history)
          IN  NavOutputs(out[1], out[2])
    /\ UNCHANGED <<pc, back_disabled>>
    /\ NavFrame

TopCountiesChartClick ==
    /\ pc = "serving"
    /\ \E top_click \in TopCountiesClicks :
          LET out == HandleTopCountiesChartClicks(top_click,
                        drill_down_state, navigation_history)
          IN  NavOutputs(out[1], out[2])
    /\ UNCHANGED <<pc, back_disabled>>
    /\ NavFrame

----------------------------------------------------------------------------
(* Input files and the specifications *)

Cells == {Rat(v) : v \in 1..MaxValue} \cup {NULL}

\* ranking inputs: NumRegions counties and one metric column, either a
\* higher-is-better one or one of the inverted metrics
RankSchemas == {<<ColLifeExp>>, <<ColInfant>>}

\* the identity columns of row i of a file whose rows are distinct counties
Identity(i) ==
    [FIPS |-> Rat(i), State |-> "Alabama",
     County |-> <<"Autauga County", "Baldwin County", "Barbour County",
                  "Bibb County", "Blount County">>[i]]

WithCells(identity, cells) ==
    [FIPS |-> identity.FIPS, State |-> identity.State,
     County |-> identity.County, cells |-> cells]

RankTables(cols) ==
    {[i \in 1..NumRegions |-> WithCells(Identity(i), t[i])] :
        t \in [1..NumRegions -> [DOMAIN cols -> Cells]]}

\* roll-up inputs: two counties; an index and two components in one
\* subcategory, a second subcategory, a second category
RollupColumns == <<ColHealthIndex, ColLifeExp, ColInfant, ColIncome, ColGDP>>

RollupTables ==
    {<<WithCells(Identity(1), a), WithCells(Identity(2), b)>> :
        a \in [DOMAIN RollupColumns -> {Rat(1), Rat(2), NULL}],
        b \in [DOMAIN RollupColumns -> {Rat(2), NULL}]}

InitStores ==
    /\ pc = "start"
    /\ counties = <<>>
    /\ metric_metadata = <<>>
    /\ raw_metrics = <<>>
    /\ aggregated_scores = <<>>
    /\ summary_report = {}
    /\ rank_runs = 0
    /\ agg_runs = 0
    /\ main_runs = 0
    /\ hierarchy_metrics = <<>>
    /\ etl_hierarchy = <<>>
    /\ etl_counties = EmptyBag
    /\ etl_raw_metrics = <<>>
    /\ computed_metrics = <<>>
    /\ etl_runs = 0
    /\ county_data = <<>>
    /\ metric_percentiles = <<>>
    /\ simple_etl_df = <<>>
    /\ loaded_df = <<>>
    /\ rank_tasks = <<>>
    /\ dashboard_data = <<>>
    /\ drill_down_state = Overview
    /\ navigation_history = <<>>
    /\ back_disabled = TRUE

\* files with the columns the view computed_metrics selects, with and
\* without the column it names between double quotes; two counties, the
\* cells of a row alike
ViewColumns == [v \in DOMAIN ViewMetrics |-> ViewMetrics[v].column]

ViewSchemas ==
    {ViewColumns,
     SelectSeq(ViewColumns, LAMBDA col : col # <<"Economy", "NON-PROFIT">>)}

ViewTables(cols) ==
    {<<WithCells(Identity(1), [c \in DOMAIN cols |-> a]),
       WithCells(Identity(2), [c \in DOMAIN cols |-> b])>> :
        a \in Cells, b \in Cells}

InitRank ==
    /\ \/ columns \in RankSchemas /\ df \in RankTables(columns)
       \/ columns \in ViewSchemas /\ df \in ViewTables(columns)
    /\ InitStores

InitRollup ==
    /\ columns = RollupColumns
    /\ df \in RollupTables
    /\ InitStores

\* the CountyHealthDataProcessor script, statement by committed statement
NextProcessor ==
    \/ CreateDatabaseSchema
    \/ DropMetricMetadata
    \/ DropAggregatedScores
    \/ SchemaCreated
    \/ ImportCounties
    \/ ImportMetricMetadata
    \/ ImportRawMetrics
    \/ CalculatePercentiles
    \/ AggSubcategoryScores
    \/ AggCategoryScores
    \/ AggOverallScores
    \/ AggPercentilesSubcategory
    \/ AggPercentilesCategory
    \/ AggPercentilesOverall
    \/ ExportSummaryReport

\* the three programs that rank the counties of a file
Next ==
    \/ NextProcessor
    \/ RunPipeline
    \/ ReplaceCountiesCreate
    \/ LoadCounties
    \/ LoadRawMetrics
    \/ LoadComputedMetrics
    \/ CreateDatabaseFromCsv
    \/ CreateDatabaseFromCsvOverEtl
    \/ CreateCountyData
    \/ CountyDataWritten
    \/ CreateCountiesTable
    \/ CreateViewAndVerify
    \/ FixDropCounties
    \/ FixCountiesTable
    \/ SqliteCalculatePercentiles

Spec == InitRank /\ [][Next]_vars
SpecRollup == InitRollup /\ [][NextProcessor]_vars

\* repeated runs: a file of two rows whose identifiers and county names
\* may coincide, an inverted metric and a metric of another category
RerunColumns == <<ColInfant, ColGDP>>

RerunTables ==
    {<<WithCells(a, x), WithCells(b, y)>> :
        a \in {Identity(1), Identity(2)},
        b \in {Identity(1), Identity(2),
               [FIPS |-> Rat(1), State |-> "Alabama", County |-> "Baldwin County"]},
        x \in [DOMAIN RerunColumns -> {Rat(1), Rat(2), NULL}],
        y \in [DOMAIN RerunColumns -> {Rat(1), Rat(2), NULL}]}

InitRerun ==
    /\ columns = RerunColumns
    /\ df \in RerunTables
    /\ InitStores

NextRerun ==
    \/ Next
    \/ CreateDatabaseSchemaAgain
    \/ AggSubcategoryScoresAgain
    \/ RunPipelineAgain

SpecRerun == InitRerun /\ [][NextRerun]_vars

\* taxonomy inputs: two distinct columns out of index columns (two
\* segments, or a third segment repeating the subcategory), component
\* columns and a column of one segment; two counties
TaxonomyColumns ==
    {ColHealthIndex, ColHealthHealth, ColBusinessTrend, ColGDP, ColInfant,
     ColPopulation, ColHousingRent, ColIncome}

TaxonomySchemas ==
    {<<a, b>> : a \in TaxonomyColumns, b \in TaxonomyColumns} \
       {<<a, a>> : a \in TaxonomyColumns}

TaxonomyTables ==
    {<<WithCells(Identity(1), x), WithCells(Identity(2), y)>> :
        x \in [1..2 -> {Rat(1), NULL}], y \in [1..2 -> {Rat(2), NULL}]}

InitTaxonomy ==
    /\ columns \in TaxonomySchemas
    /\ df \in TaxonomyTables
    /\ InitStores

\* the scripts, the read of one county's scores that ends the
\* CountyHealthDataProcessor script, and run_pipeline called again
NextTaxonomy ==
    \/ Next
    \/ GetCountyDataForDashboard
    \/ RunPipelineAgain

SpecTaxonomy == InitTaxonomy /\ [][NextTaxonomy]_vars

\* sanitizer inputs: a file with the four main category columns and two
\* rows; identifier, state and county may be missing, identifiers have one
\* to six digits; the three sanitizers are run on it
SanitizeColumns ==
    <<<<"Health", "Overall">>, <<"Wealth", "Overall">>,
      <<"Education", "Overall">>, <<"Community", "Overall">>>>

SanitizeCells ==
    {<<a, b, NULL, NULL>> : a \in {Rat(1), NULL}, b \in {Rat(2), NULL}}

SanitizeTables ==
    {<<WithCells([FIPS |-> f1, State |-> s1, County |-> c1], x),
       WithCells([FIPS |-> f2, State |-> "Alabama", County |-> c2], y)>> :
        f1 \in {Rat(7), Rat(100100), NULL},
        s1 \in {"Alabama", "Ohio", NoText},
        c1 \in {"autauga", NoText},
        f2 \in {Rat(1001), NULL},
        c2 \in {"Baldwin County", NoText},
        x \in SanitizeCells, y \in SanitizeCells}

InitSanitize ==
    /\ columns = SanitizeColumns
    /\ df \in SanitizeTables
    /\ InitStores

NextSanitize ==
    \/ RunPipeline
    \/ ReplaceCountiesCreate
    \/ LoadCounties
    \/ LoadRawMetrics
    \/ LoadComputedMetrics
    \/ RunSimpleEtl
    \/ LoadData

SpecSanitize == InitSanitize /\ [][NextSanitize]_vars

\* ranking statement by statement: three counties, an inverted metric and
\* a metric of another category
RankStepColumns == <<ColInfant, ColGDP>>

RankStepTables ==
    {[i \in 1..3 |-> WithCells(Identity(i), t[i])] :
        t \in [1..3 -> [DOMAIN RankStepColumns -> {Rat(1), Rat(2), NULL}]]}

InitRankSteps ==
    /\ columns = RankStepColumns
    /\ df \in RankStepTables
    /\ InitStores

NextRankSteps ==
    \/ CreateDatabaseSchema
    \/ DropMetricMetadata
    \/ DropAggregatedScores
    \/ SchemaCreated
    \/ ImportCounties
    \/ ImportMetricMetadata
    \/ ImportRawMetrics
    \/ RankSelectMetrics
    \/ RankReadValues
    \/ RankUpdateRow
    \/ RankCommit

SpecRankSteps == InitRankSteps /\ [][NextRankSteps]_vars

\* a dashboard session: main_app loads the file (the main category columns
\* and two sub-metric columns, two counties), the page is loaded, then
\* resets, backs, manual changes and chart clicks in any order
NavColumns ==
    SanitizeColumns \o <<<<"Health", "Life", "Expectancy">>,
                         <<"Community", "Violent", "Crime", "Rate">>>>

NavTables ==
    {<<WithCells(Identity(1), [c \in DOMAIN NavColumns |-> x]),
       WithCells(Identity(2), [c \in DOMAIN NavColumns |-> Rat(2)])>> :
        x \in {Rat(1), NULL}}

InitNav ==
    /\ columns = NavColumns
    /\ df \in NavTables
    /\ InitStores

NextNav ==
    \/ LoadData
    \/ PageLoad
    \/ ResetClick
    \/ BackClick
    \/ ManualChange
    \/ MainChartClick
    \/ OverviewChartClick
    \/ TopCountiesChartClick

SpecNav == InitNav /\ [][NextNav]_vars

\* cell inputs: two counties and the four main category columns; a cell is
\* a number, empty, the error token #DIV/0! or a percentage; the file is
\* read by load_data and by the CountyHealthDataProcessor script
CellTexts ==
    {<<a, b, NULL, NULL>> : a \in {Rat(1), NULL, DivZeroText, PercentText},
                            b \in {Rat(2), NULL, DivZeroText}}

CellTables ==
    {<<WithCells(Identity(1), x), WithCells(Identity(2), y)>> :
        x \in CellTexts, y \in CellTexts}

InitCells ==
    /\ columns = SanitizeColumns
    /\ df \in CellTables
    /\ InitStores

NextCells ==
    \/ LoadData
    \/ NextProcessor

SpecCells == InitCells /\ [][NextCells]_vars

----------------------------------------------------------------------------
(* Reference notions used by the properties *)

Min(S) == CHOOSE x \in S : \A y \in S : x <= y
Max(S) == CHOOSE x \in S : \A y \in S : y <= x

\* the keys of f sorted by ascending value
RECURSIVE SortAscending(_, _)
SortAscending(f, S) ==
    IF S = {} THEN <<>>
    ELSE LET m == CHOOSE x \in S : \A y \in S : ~RLess(f[y], f[x])
         IN  <<m>> \o SortAscending(f, S \ {m})

\* twice the fractional rank of k: the run of values tied with f[k]
\* occupies positions p..q of the sorted order, its average is (p + q) / 2
FractionalRankTwice(f, k) ==
    LET sorted == SortAscending(f, DOMAIN f)
        run == {i \in DOMAIN sorted : f[sorted[i]] = f[k]}
    IN  Min(run) + Max(run)

\* pct = fractional rank / N * 100, up to the rounding of the doubles
IsFractionalPercentile(f, k, pct) ==
    Near(pct, Norm(FractionalRankTwice(f, k) * 100, 2 * Cardinality(DOMAIN f)))

PairwiseDistinct(f) == \A a, b \in DOMAIN f : f[a] = f[b] => a = b

\* {100/N, 200/N, ..., 100}
EvenPercentiles(n) == {Norm(100 * i, n) : i \in 1..n}

\* county_health.db holds the tables of SimpleETL: create_database_from_csv
\* has not replaced the file, where computed_metrics is a view that gives
\* every row the constant 50.0 and is no ranking
WrittenByLoadData == county_data = <<>>

\* the computed_metrics rows of the metric and year of row i: index -> value
ETLBatch(i) ==
    [j \in {x \in DOMAIN computed_metrics :
               /\ computed_metrics[x].top_level = computed_metrics[i].top_level
               /\ computed_metrics[x].sub_category = computed_metrics[i].sub_category
               /\ computed_metrics[x].metric_name = computed_metrics[i].metric_name
               /\ computed_metrics[x].data_year = computed_metrics[i].data_year} |->
        computed_metrics[j].metric_value]

\* the metric_percentiles rows of the column of key k: fips -> value
SqliteBatch(k) ==
    [f \in {x[1] : x \in {y \in DOMAIN metric_percentiles : y[2] = k[2]}} |->
        metric_percentiles[<<f, k[2]>>].metric_value]

\* the values import_from_wide_format stored for a metric: fips -> value
ImportedValues(metric_id) == MetricValues(RawRows, metric_id)

\* raw_metrics as left by exactly one call of calculate_percentiles
RankedOnce == pc = "ranked" /\ rank_runs = 1

----------------------------------------------------------------------------
(* C1: percentile ranking uses fractional (average) ranks -- a run of k    *)
(* tied values at sorted positions p..p+k-1 gets rank average(p..p+k-1)    *)
(* and percentile rank/N*100, so equal raw values get equal percentiles    *)
(* (SimpleETL.load_data; CountyHealthDataProcessor.calculate_percentiles). *)
C1_FractionalRankTies ==
    /\ WrittenByLoadData =>
          \A i \in DOMAIN computed_metrics :
             IsFractionalPercentile(ETLBatch(i), i,
                                    computed_metrics[i].percentile_rank)
    /\ RankedOnce =>
          \A k \in DOMAIN raw_metrics :
             LET values == ImportedValues(k[2])
             IN  /\ metric_metadata[k[2]].higher_is_better = 1 =>
                       IsFractionalPercentile(values, k[1], raw_metrics[k])
                 /\ \A g \in DOMAIN values :
                       values[g] = values[k[1]] =>
                          raw_metrics[<<g, k[2]>>] = raw_metrics[k]

\* values [v, v, w] with v < w have been ranked [50, 50, 100]
C1_Witness ==
    /\ pc = "etl_done"
    /\ Len(computed_metrics) = 3
    /\ computed_metrics[1].metric_value = computed_metrics[2].metric_value
    /\ RLess(computed_metrics[2].metric_value, computed_metrics[3].metric_value)
    /\ computed_metrics[1].percentile_rank = Rat(50)
    /\ computed_metrics[2].percentile_rank = Rat(50)
    /\ computed_metrics[3].percentile_rank = Rat(100)

----------------------------------------------------------------------------
(* C2: a higher-is-better metric whose N non-null values are pairwise      *)
(* distinct gets exactly the percentiles {100/N, 200/N, ..., 100}, each    *)
(* once (as doubles: each within rounding of one of them), and a larger    *)
(* value gets a strictly larger percentile (load_data, both                *)
(* calculate_percentiles).                                                 *)
IsEvenPermutation(values, pct) ==
    PairwiseDistinct(values) =>
       /\ \A e \in EvenPercentiles(Cardinality(DOMAIN values)) :
             Cardinality({k \in DOMAIN values : Near(pct[k], e)}) = 1
       /\ \A a, b \in DOMAIN values :
             /\ a # b => pct[a] # pct[b]
             /\ RLess(values[a], values[b]) => RLess(pct[a], pct[b])

C2_DistinctValuesPermutation ==
    /\ WrittenByLoadData =>
          \A i \in DOMAIN computed_metrics :
             IsEvenPermutation(ETLBatch(i),
                [j \in DOMAIN ETLBatch(i) |->
                    computed_metrics[j].percentile_rank])
    /\ \A k \in DOMAIN metric_percentiles :
          IsEvenPermutation(SqliteBatch(k),
             [f \in DOMAIN SqliteBatch(k) |->
                 metric_percentiles[<<f, k[2]>>].percentile_rank])
    /\ RankedOnce =>
          \A id \in DOMAIN metric_metadata :
             metric_metadata[id].higher_is_better = 1 =>
                IsEvenPermutation(ImportedValues(id),
                   [f \in DOMAIN ImportedValues(id) |-> raw_metrics[<<f, id>>]])

\* four pairwise distinct values cannot occur with MaxValue = 3; three can,
\* and have been ranked 100/3, 200/3, 100 by calculate_percentiles
C2_Witness ==
    /\ RankedOnce
    /\ \E id \in DOMAIN metric_metadata :
          /\ metric_metadata[id].higher_is_better = 1
          /\ Cardinality(DOMAIN ImportedValues(id)) = 3
          /\ PairwiseDistinct(ImportedValues(id))
          /\ \A e \in {Norm(100, 3), Norm(200, 3), Rat(100)} :
                \E f \in DOMAIN ImportedValues(id) :
                   Near(raw_metrics[<<f, id>>], e)

----------------------------------------------------------------------------
(* C3: a percentile row exists for a region exactly when the region holds  *)
(* a non-null value of the metric, and the denominator N is the number of  *)
(* such regions: the percentiles of a metric sum to 50 * (N + 1)           *)
(* (50 * (N - 1) when inverted) whatever the number of null rows, and a    *)
(* metric without values has no percentile rows.                           *)
NonNullRows(c) == {r \in Rows : Cell(r, c) # NULL}

ETLRowsOf(c) ==
    LET info == ETLHierarchyInfo(BuildFromColumns(columns), columns[c])
    IN  {i \in DOMAIN computed_metrics :
            /\ computed_metrics[i].top_level = info.top_level
            /\ computed_metrics[i].sub_category = info.sub_category
            /\ computed_metrics[i].metric_name = info.metric_name}

C3_RowsAndDenominator ==
    /\ pc = "etl_done" =>
          \A c \in Cols :
             /\ {computed_metrics[i].county_fips : i \in ETLRowsOf(c)}
                   = {CountyFips(df[r].FIPS) : r \in NonNullRows(c)}
             /\ Cardinality(ETLRowsOf(c)) = Cardinality(NonNullRows(c))
             /\ Near(RSum([i \in ETLRowsOf(c) |->
                               computed_metrics[i].percentile_rank],
                          ETLRowsOf(c)),
                     IF NonNullRows(c) = {} THEN Rat(0)
                     ELSE Rat(50 * (Cardinality(NonNullRows(c)) + 1)))
    /\ RankedOnce =>
          \A c \in Cols :
             LET id == MetricId(columns[c])
                 held == {k \in DOMAIN raw_metrics : k[2] = id}
                 n == Cardinality(NonNullRows(c))
             IN  /\ {k[1] : k \in held}
                       = {IntOf(df[r].FIPS) : r \in NonNullRows(c)}
                 /\ Near(RSum(raw_metrics, held),
                         IF n = 0 THEN Rat(0)
                         ELSE IF metric_metadata[id].higher_is_better = 1
                         THEN Rat(50 * (n + 1))
                         ELSE Rat(50 * (n - 1)))

\* a metric held by two of the four counties has been ranked: the two
\* percentile rows are 50 and 100, the two null rows have none
C3_Witness ==
    /\ pc = "etl_done"
    /\ Cardinality(NonNullRows(1)) = 2
    /\ Len(df) = 4
    /\ Len(computed_metrics) = 2
    /\ {computed_metrics[i].percentile_rank : i \in DOMAIN computed_metrics}
          = {Rat(50), Rat(100)}

----------------------------------------------------------------------------
(* C4: polarity -- the percentile calculate_percentiles stores for an      *)
(* inverted metric (higher_is_better = 0) is 100 minus the percentile the  *)
(* same values get as a higher-is-better metric, ties included.            *)
C4_PolarityComplement ==
    RankedOnce =>
       \A k \in DOMAIN raw_metrics :
          metric_metadata[k[2]].higher_is_better = 0 =>
             /\ Near(raw_metrics[k],
                     RSub(Rat(100), Percentile(ImportedValues(k[2]), k[1], 1)))
             /\ IsFractionalPercentile(ImportedValues(k[2]), k[1],
                                       RSub(Rat(100), raw_metrics[k]))

\* 1, 2, 3 of an inverted metric have been ranked 200/3, 100/3, 0
C4_Witness ==
    /\ RankedOnce
    /\ columns = <<ColInfant>>
    /\ \E a, b, c \in 1..NumRegions :
          LET id == MetricId(ColInfant)
          IN  /\ DOMAIN ImportedValues(id) = {a, b, c}
              /\ ImportedValues(id)[a] = Rat(1)
              /\ Near(raw_metrics[<<a, id>>], Norm(200, 3))
              /\ ImportedValues(id)[b] = Rat(2)
              /\ Near(raw_metrics[<<b, id>>], Norm(100, 3))
              /\ ImportedValues(id)[c] = Rat(3)
              /\ raw_metrics[<<c, id>>] = Rat(0)

----------------------------------------------------------------------------
(* C5 (as claimed): 100 minus the higher-is-better percentile equals the   *)
(* fractional-rank percentile of the negated values.                       *)
NegatedPercentile(values, k) ==
    Times100(RankPct([f \in DOMAIN values |-> RNeg(values[f])], k))

C5_NegatedRankEquivalent ==
    RankedOnce =>
       \A k \in DOMAIN raw_metrics :
          metric_metadata[k[2]].higher_is_better = 0 =>
             Near(raw_metrics[k], NegatedPercentile(ImportedValues(k[2]), k[1]))

(* C5 (amended): the two inversions order the regions alike but differ by  *)
(* one rank step -- the percentile of the negated values is the stored     *)
(* inverted percentile (100 minus the higher-is-better one) plus 100/N.    *)
C5_NegatedRankOffset ==
    RankedOnce =>
       \A k \in DOMAIN raw_metrics :
          metric_metadata[k[2]].higher_is_better = 0 =>
             LET values == ImportedValues(k[2])
             IN  /\ Near(raw_metrics[k],
                         RSub(Rat(100), Percentile(values, k[1], 1)))
                 /\ Near(NegatedPercentile(values, k[1]),
                         RAdd(raw_metrics[k],
                              Norm(100, Cardinality(DOMAIN values))))

\* an inverted metric with a tie has been ranked: 2, 2, 1, 3 are stored as
\* 37.5, 37.5, 75, 0 while their negations rank 62.5, 62.5, 100, 25
C5_Witness ==
    /\ RankedOnce
    /\ columns = <<ColInfant>>
    /\ LET id == MetricId(ColInfant)
       IN  /\ DOMAIN ImportedValues(id) = 1..4
           /\ ImportedValues(id) = <<Rat(2), Rat(2), Rat(1), Rat(3)>>
           /\ raw_metrics[<<1, id>>] = Norm(75, 2)
           /\ raw_metrics[<<3, id>>] = Rat(75)
           /\ NegatedPercentile(ImportedValues(id), 3) = Rat(100)

----------------------------------------------------------------------------
(* C6 (as claimed): every stored percentile honours the polarity flag --   *)
(* a metric whose name is in the inverted set is stored inverted, by       *)
(* load_data and by both calculate_percentiles.                            *)
C6_PolarityHonoured ==
    /\ RankedOnce =>
          \A k \in DOMAIN raw_metrics :
             metric_metadata[k[2]].metric \in invert_metrics =>
                IsFractionalPercentile(ImportedValues(k[2]), k[1],
                                       RSub(Rat(100), raw_metrics[k]))
    /\ WrittenByLoadData =>
          \A i \in DOMAIN computed_metrics :
             computed_metrics[i].metric_name \in invert_metrics =>
                IsFractionalPercentile(ETLBatch(i), i,
                   RSub(Rat(100), computed_metrics[i].percentile_rank))
    /\ \A k \in DOMAIN metric_percentiles :
          MetricName(k[2]) \in invert_metrics =>
             IsFractionalPercentile(SqliteBatch(k), k[1],
                RSub(Rat(100), metric_percentiles[k].percentile_rank))

----------------------------------------------------------------------------
(* Roll-up: reference notions *)

\* calculate_aggregated_scores has written its subcategory / category /
\* overall raw scores
SubcategoryWritten ==
    pc \in {"agg_category", "agg_overall", "pct_subcategory", "pct_category",
            "pct_overall", "aggregated", "exported"}
CategoryWritten ==
    pc \in {"agg_overall", "pct_subcategory", "pct_category", "pct_overall",
            "aggregated", "exported"}
OverallWritten ==
    pc \in {"pct_subcategory", "pct_category", "pct_overall", "aggregated",
            "exported"}

Counties == {IntOf(df[r].FIPS) : r \in Rows}
Nodes == {<<metric_metadata[id].category, metric_metadata[id].subcategory>> :
             id \in DOMAIN metric_metadata}

\* metrics of a subcategory node; the index metric is the one named like
\* the subcategory, the others are its components
NodeMetrics(node) ==
    {id \in DOMAIN metric_metadata :
        /\ metric_metadata[id].category = node[1]
        /\ metric_metadata[id].subcategory = node[2]}
IsIndexId(id) == metric_metadata[id].metric = <<metric_metadata[id].subcategory>>
Held(f, ids) == {id \in ids : <<f, id>> \in DOMAIN raw_metrics}
HeldValues(f, ids) == [id \in Held(f, ids) |-> raw_metrics[<<f, id>>]]

SubKey(f, node) == <<f, "subcategory", <<node[1], node[2]>> >>
CatKey(f, category) == <<f, "category", <<category>> >>
OverallKey(f) == <<f, "overall", <<"overall">> >>

----------------------------------------------------------------------------
(* C7 (as claimed): missing-exclusion -- a region that holds some but not   *)
(* all of the component metrics of a subcategory has as raw score the mean *)
(* of the component values it holds, the missing ones left out and never   *)
(* counted as zero; a region holding one of several sibling component      *)
(* metrics has raw score exactly that metric's value.                      *)
C7_MissingExcluded ==
    SubcategoryWritten =>
       \A f \in Counties, node \in Nodes :
          LET components == {id \in NodeMetrics(node) : ~IsIndexId(id)}
              held == HeldValues(f, components)
          IN  (DOMAIN held # {} /\ DOMAIN held # components) =>
                /\ SubKey(f, node) \in DOMAIN aggregated_scores
                /\ Near(aggregated_scores[SubKey(f, node)].raw_score, Mean(held))
                /\ \A id \in DOMAIN held :
                      DOMAIN held = {id} =>
                         aggregated_scores[SubKey(f, node)].raw_score = held[id]

\* what the GROUP BY does: the raw score is the mean of every value the
\* region holds in the subcategory, the index metric's value among them;
\* no metric the region lacks is counted
C7_HeldMean ==
    SubcategoryWritten =>
       \A f \in Counties, node \in Nodes :
          LET held == HeldValues(f, NodeMetrics(node))
          IN  DOMAIN held # {} =>
                /\ SubKey(f, node) \in DOMAIN aggregated_scores
                /\ Near(aggregated_scores[SubKey(f, node)].raw_score, Mean(held))

----------------------------------------------------------------------------
(* C8 (as claimed): index-versus-component precedence -- when a region     *)
(* holds a component value of the subcategory the raw score is the mean of *)
(* the component values only; the index metric's value is the raw score    *)
(* only when the region holds no component value.                          *)
C8_ComponentsBeforeIndex ==
    SubcategoryWritten =>
       \A f \in Counties, node \in Nodes :
          LET components == {id \in NodeMetrics(node) : ~IsIndexId(id)}
              indexes == {id \in NodeMetrics(node) : IsIndexId(id)}
          IN  /\ Held(f, components) # {} =>
                    Near(aggregated_scores[SubKey(f, node)].raw_score,
                         Mean(HeldValues(f, components)))
              /\ (Held(f, components) = {} /\ Held(f, indexes) # {}) =>
                    Near(aggregated_scores[SubKey(f, node)].raw_score,
                         Mean(HeldValues(f, indexes)))

----------------------------------------------------------------------------
(* C9: absent, not zero -- a region has a subcategory row exactly when it  *)
(* holds a value of one of the subcategory's metrics, a category row       *)
(* exactly when it has a subcategory row of that category, an overall row  *)
(* exactly when it has a category row; a subcategory whose metrics have no *)
(* value at all has no row for anybody.                                    *)
C9_AbsentNotZero ==
    /\ SubcategoryWritten =>
          /\ \A f \in Counties, node \in Nodes :
                SubKey(f, node) \in DOMAIN aggregated_scores
                   <=> Held(f, NodeMetrics(node)) # {}
          /\ \A k \in LevelRows(aggregated_scores, "subcategory") :
                /\ k[1] \in Counties
                /\ <<k[3][1], k[3][2]>> \in Nodes
                /\ aggregated_scores[k].raw_score # NULL
    /\ ~CategoryWritten => LevelRows(aggregated_scores, "category") = {}
    /\ CategoryWritten =>
          \A f \in Counties, node \in Nodes :
             CatKey(f, node[1]) \in DOMAIN aggregated_scores
                <=> \E k \in LevelRows(aggregated_scores, "subcategory") :
                       k[1] = f /\ k[3][1] = node[1]
    /\ ~OverallWritten => LevelRows(aggregated_scores, "overall") = {}
    /\ OverallWritten =>
          \A f \in Counties :
             OverallKey(f) \in DOMAIN aggregated_scores
                <=> \E k \in LevelRows(aggregated_scores, "category") : k[1] = f

\* county 2 holds nothing in society but something in economy: it has
\* no society rows at all, while county 1 has them
C9_Witness ==
    /\ pc = "aggregated"
    /\ Held(2, DOMAIN metric_metadata) = {MetricId(ColGDP)}
    /\ CatKey(2, "society") \notin DOMAIN aggregated_scores
    /\ SubKey(2, <<"society", "wealth">>) \notin DOMAIN aggregated_scores
    /\ CatKey(1, "society") \in DOMAIN aggregated_scores
    /\ OverallKey(2) \in DOMAIN aggregated_scores

----------------------------------------------------------------------------
(* C10: category raw score = mean of the region's subcategory raw scores   *)
(* of that category, overall raw score = mean of the region's category raw *)
(* scores; a subcategory counts for the category its metrics were parsed   *)
(* under.                                                                  *)
SubRowsOf(f, category) ==
    {SubKey(f, node) : node \in {n \in Nodes : n[1] = category}}
       \cap DOMAIN aggregated_scores

C10_MeanOfChildren ==
    /\ CategoryWritten =>
          \A k \in LevelRows(aggregated_scores, "category") :
             /\ SubRowsOf(k[1], k[3][1]) # {}
             /\ Near(aggregated_scores[k].raw_score,
                     Mean([c \in SubRowsOf(k[1], k[3][1]) |->
                              aggregated_scores[c].raw_score]))
    /\ OverallWritten =>
          \A k \in LevelRows(aggregated_scores, "overall") :
             LET cats == {c \in LevelRows(aggregated_scores, "category") :
                             c[1] = k[1]}
             IN  /\ cats # {}
                 /\ Near(aggregated_scores[k].raw_score,
                         Mean([c \in cats |-> aggregated_scores[c].raw_score]))

\* county 1: society_health 1.5 (two metrics) and society_wealth 1 give
\* society 1.25 (not the flat mean 4/3); with economy 2 the overall is 1.625
C10_Witness ==
    /\ pc = "aggregated"
    /\ rank_runs = 0
    /\ {SubKey(1, <<"society", "health">>), SubKey(1, <<"society", "wealth">>),
        CatKey(1, "economy")} \subseteq DOMAIN aggregated_scores
    /\ aggregated_scores[SubKey(1, <<"society", "health">>)].raw_score = Norm(3, 2)
    /\ Cardinality(Held(1, NodeMetrics(<<"society", "health">>))) = 2
    /\ aggregated_scores[SubKey(1, <<"society", "wealth">>)].raw_score = Rat(1)
    /\ aggregated_scores[CatKey(1, "society")].raw_score = Norm(5, 4)
    /\ aggregated_scores[CatKey(1, "economy")].raw_score = Rat(2)
    /\ aggregated_scores[OverallKey(1)].raw_score = Norm(13, 8)

----------------------------------------------------------------------------
(* C11: at each aggregated level the percentile_score of a node (level,    *)
(* name) for a region is the fractional-rank percentile of the region's    *)
(* raw_score among exactly the regions holding a raw_score at the same     *)
(* (level, name), and when calculate_aggregated_scores has ended every row *)
(* with a raw_score has a non-null percentile_score.                       *)
AggregatorDone == pc \in {"aggregated", "exported"}

\* the raw scores of the node of row k: fips -> raw_score
LevelBatch(k) ==
    [f \in {x[1] : x \in {y \in DOMAIN aggregated_scores :
                            y[2] = k[2] /\ y[3] = k[3]}} |->
        aggregated_scores[<<f, k[2], k[3]>>].raw_score]

C11_LevelPercentiles ==
    AggregatorDone =>
       \A k \in DOMAIN aggregated_scores :
          aggregated_scores[k].raw_score # NULL =>
             /\ aggregated_scores[k].percentile_score # NULL
             /\ IsFractionalPercentile(LevelBatch(k), k[1],
                                       aggregated_scores[k].percentile_score)

\* both counties hold society_health (1 < 2: percentiles 50 and 100), only
\* county 1 holds society_wealth (alone: 100), and the counties tie at the
\* economy category (75 each)
C11_Witness ==
    /\ pc = "aggregated"
    /\ rank_runs = 0
    /\ {SubKey(1, <<"society", "health">>), SubKey(2, <<"society", "health">>),
        SubKey(1, <<"society", "wealth">>), CatKey(1, "economy"),
        CatKey(2, "economy")} \subseteq DOMAIN aggregated_scores
    /\ SubKey(2, <<"society", "wealth">>) \notin DOMAIN aggregated_scores
    /\ aggregated_scores[SubKey(1, <<"society", "health">>)].percentile_score
          = Rat(50)
    /\ aggregated_scores[SubKey(2, <<"society", "health">>)].percentile_score
          = Rat(100)
    /\ aggregated_scores[SubKey(1, <<"society", "wealth">>)].percentile_score
          = Rat(100)
    /\ aggregated_scores[CatKey(1, "economy")].percentile_score = Rat(75)
    /\ aggregated_scores[CatKey(2, "economy")].percentile_score = Rat(75)

----------------------------------------------------------------------------
(* C12: no partial re-ranking -- a step of calculate_aggregated_scores     *)
(* gives a row of a level its percentile_score only when, before the step, *)
(* the raw scores of that level were written for all regions: a           *)
(* subcategory row for every region holding a value of the subcategory, a  *)
(* category row for every region with a subcategory row of the category,   *)
(* an overall row for every region with a category row.                    *)
Levels == {"subcategory", "category", "overall"}

LevelWritten(level) ==
    CASE level = "subcategory" ->
           \A f \in Counties, node \in Nodes :
              Held(f, NodeMetrics(node)) # {} =>
                 /\ SubKey(f, node) \in DOMAIN aggregated_scores
                 /\ aggregated_scores[SubKey(f, node)].raw_score # NULL
      [] level = "category" ->
           \A k \in LevelRows(aggregated_scores, "subcategory") :
              /\ CatKey(k[1], k[3][1]) \in DOMAIN aggregated_scores
              /\ aggregated_scores[CatKey(k[1], k[3][1])].raw_score # NULL
      [] level = "overall" ->
           \A k \in LevelRows(aggregated_scores, "category") :
              /\ OverallKey(k[1]) \in DOMAIN aggregated_scores
              /\ aggregated_scores[OverallKey(k[1])].raw_score # NULL

\* the step gives some row of the level a percentile_score it had not
RanksLevel(level) ==
    \E k \in LevelRows(aggregated_scores', level) :
       /\ aggregated_scores'[k].percentile_score # NULL
       /\ \/ k \notin DOMAIN aggregated_scores
          \/ aggregated_scores[k].percentile_score = NULL

C12_NoPartialRanking ==
    [][\A level \in Levels : RanksLevel(level) => LevelWritten(level)]_vars

\* the subcategory level has just been ranked: both counties hold
\* society_health and have their percentile, the category and overall rows
\* are written and not yet ranked
C12_Witness ==
    /\ pc = "pct_category"
    /\ {SubKey(1, <<"society", "health">>), SubKey(2, <<"society", "health">>),
        CatKey(1, "society"), CatKey(2, "society"), OverallKey(1),
        OverallKey(2)} \subseteq DOMAIN aggregated_scores
    /\ aggregated_scores[SubKey(1, <<"society", "health">>)].percentile_score
          # NULL
    /\ aggregated_scores[SubKey(2, <<"society", "health">>)].percentile_score
          # NULL
    /\ aggregated_scores[CatKey(1, "society")].percentile_score = NULL
    /\ aggregated_scores[OverallKey(2)].percentile_score = NULL

----------------------------------------------------------------------------
(* C13 (as claimed): hard barrier between levels -- a level is complete,   *)
(* raw scores and percentile scores both written, before any raw score of  *)
(* the next level up is computed: while a category row exists every        *)
(* subcategory row has its percentile_score, and while an overall row      *)
(* exists every category row has its percentile_score.                     *)
LevelRanked(level) ==
    \A k \in LevelRows(aggregated_scores, level) :
       aggregated_scores[k].percentile_score # NULL

C13_LevelBarrier ==
    /\ LevelRows(aggregated_scores, "category") # {} =>
          LevelWritten("subcategory") /\ LevelRanked("subcategory")
    /\ LevelRows(aggregated_scores, "overall") # {} =>
          LevelWritten("category") /\ LevelRanked("category")

----------------------------------------------------------------------------
(* C14: idempotence -- when calculate_aggregated_scores has run again on   *)
(* unchanged raw_metrics, and when the whole script has run again on the   *)
(* same file, the aggregated_scores rows (region, level, name, raw score,  *)
(* percentile score) are the rows the previous run left, as recorded by    *)
(* the summary report it exported.                                         *)
AggregatorRanAgain == pc = "aggregated" /\ agg_runs >= 2
ScriptRanAgain == pc = "aggregated" /\ main_runs >= 2 /\ rank_runs = 1

C14_Idempotent ==
    (AggregatorRanAgain \/ ScriptRanAgain) =>
       SummaryRows(counties, aggregated_scores) = summary_report

\* the second execution of the script has aggregated twice; the report of
\* the previous run holds scores of two counties, one of them ranked 50
C14_Witness ==
    /\ pc = "aggregated"
    /\ main_runs = 2
    /\ rank_runs = 1
    /\ agg_runs = 2
    /\ Cardinality({row.fips : row \in summary_report}) = 2
    /\ \E row \in summary_report :
          row.level = "subcategory" /\ row.percentile_score = Rat(50)
    /\ \E row \in summary_report :
          row.level = "overall" /\ row.raw_score # Rat(0)

----------------------------------------------------------------------------
(* C15 (as claimed): replace-on-rerun -- after any sequence of runs every  *)
(* persisted table holds at most one row per key: (region, metric, year)   *)
(* in the raw facts and in the per-metric percentiles, (region, level,     *)
(* name) in the aggregated scores; a second run for a year leaves no row   *)
(* of the first run beside its own. Stated for files whose rows have       *)
(* distinct region identifiers.                                            *)
BatchIdsUnique == \A a, b \in Rows : df[a].FIPS = df[b].FIPS => a = b

C15_ReplaceOnRerun ==
    BatchIdsUnique =>
       /\ \A i, j \in DOMAIN etl_raw_metrics :
             (/\ etl_raw_metrics[i].county_fips = etl_raw_metrics[j].county_fips
              /\ etl_raw_metrics[i].metric_name = etl_raw_metrics[j].metric_name
              /\ etl_raw_metrics[i].data_year = etl_raw_metrics[j].data_year)
                => i = j
       /\ WrittenByLoadData => \A i, j \in DOMAIN computed_metrics :
             (/\ computed_metrics[i].county_fips = computed_metrics[j].county_fips
              /\ computed_metrics[i].top_level = computed_metrics[j].top_level
              /\ computed_metrics[i].sub_category = computed_metrics[j].sub_category
              /\ computed_metrics[i].metric_name = computed_metrics[j].metric_name
              /\ computed_metrics[i].data_year = computed_metrics[j].data_year)
                => i = j
       /\ AggregatorDone =>
             \A k \in DOMAIN aggregated_scores :
                /\ k[1] \in DOMAIN counties
                /\ aggregated_scores[k].percentile_score # NULL

----------------------------------------------------------------------------
(* C16 (as claimed): all-or-nothing run -- a run that aborts on an error   *)
(* leaves every previously committed table as it was before the run        *)
(* started: after a failed run the scores of the region directory are the  *)
(* scores the previous run committed and reported, and a failed first run  *)
(* leaves the tables empty.                                                *)
C16_AllOrNothing ==
    pc = "failed" =>
       /\ SummaryRows(counties, aggregated_scores) = summary_report
       /\ main_runs = 1 =>
             counties = <<>> /\ metric_metadata = <<>> /\ raw_metrics = <<>>

----------------------------------------------------------------------------
(* C17 (as claimed): snapshot isolation for readers -- a reader never sees *)
(* a half-written year: whenever the committed region directory holds a    *)
(* region with raw facts in a subcategory, the committed aggregated scores *)
(* hold that region's subcategory row with its percentile score.           *)
(* The statements of calculate_aggregated_scores run in one transaction    *)
(* (commit at its end): between them other connections still read the      *)
(* tables of the last commit, so the states inside it are not observed.    *)
Committed ==
    pc \notin {"agg_category", "agg_overall", "pct_subcategory",
               "pct_category", "pct_overall"}

C17_NoHalfWrittenYear ==
    Committed =>
       \A f \in DOMAIN counties, node \in Nodes :
          Held(f, NodeMetrics(node)) # {} =>
             /\ SubKey(f, node) \in DOMAIN aggregated_scores
             /\ aggregated_scores[SubKey(f, node)].percentile_score # NULL

----------------------------------------------------------------------------
(* C18 (as claimed): region identifiers are unique within a batch -- when  *)
(* two rows of the file carry the same identifier the whole run aborts and *)
(* commits nothing (the import leaves counties, metric_metadata and        *)
(* raw_metrics empty; run_pipeline stores nothing), and the region         *)
(* directory never holds two rows with the same identifier.                *)
C18_UniqueRegionIds ==
    /\ ~BatchIdsUnique =>
          /\ counties = <<>> /\ metric_metadata = <<>> /\ raw_metrics = <<>>
          /\ WrittenByLoadData =>
                /\ etl_counties = EmptyBag
                /\ etl_raw_metrics = <<>>
                /\ computed_metrics = <<>>
    /\ WrittenByLoadData =>
          /\ \A a, b \in BagToSet(etl_counties) :
                a.fips_code = b.fips_code => a = b
          /\ \A a \in BagToSet(etl_counties) : CopiesIn(a, etl_counties) = 1

----------------------------------------------------------------------------
(* C19: taxonomy classification -- for every accepted column (two segments *)
(* or more) the category is segment 0 upper-cased and the subcategory is   *)
(* segment 1 upper-cased; the column is an index metric named              *)
(* <SUBCATEGORY>_INDEX exactly when it has two segments or its segment 2   *)
(* equals the subcategory ignoring case, and otherwise a component metric  *)
(* named by segments 2.. joined. Society_HEALTH is the index HEALTH_INDEX, *)
(* Economy_Business_GDPGrowth the component GDPGrowth.                     *)
SameIgnoringCase(a, b) == Lower(a) = Lower(b)

IsClassified(col, m) ==
    LET index == Len(col) = 2 \/ SameIgnoringCase(col[3], col[2])
    IN  /\ SameIgnoringCase(m.top_level, col[1])
        /\ m.top_level = Upper(m.top_level)
        /\ SameIgnoringCase(m.sub_category, col[2])
        /\ m.sub_category = Upper(m.sub_category)
        /\ m.requires_calculation = index
        /\ index => m.metric_name = <<m.sub_category, "INDEX">>
        /\ ~index => m.metric_name = SubSeqFrom(col, 3)

C19_TaxonomyClassification ==
    pc = "etl_done" =>
       /\ \A col \in Range(columns) :
             Len(col) >= 2 =>
                /\ col \in DOMAIN hierarchy_metrics
                /\ IsClassified(col, hierarchy_metrics[col])
                /\ IsIndexMetric(hierarchy_metrics, col)
                      = hierarchy_metrics[col].requires_calculation
       /\ ColHealthIndex \in Range(columns) =>
             /\ hierarchy_metrics[ColHealthIndex].top_level = "SOCIETY"
             /\ hierarchy_metrics[ColHealthIndex].sub_category = "HEALTH"
             /\ hierarchy_metrics[ColHealthIndex].metric_name
                   = <<"HEALTH", "INDEX">>
             /\ IsIndexMetric(hierarchy_metrics, ColHealthIndex)
       /\ ColGDP \in Range(columns) =>
             /\ hierarchy_metrics[ColGDP].top_level = "ECONOMY"
             /\ hierarchy_metrics[ColGDP].sub_category = "BUSINESS"
             /\ hierarchy_metrics[ColGDP].metric_name = <<"GDPGrowth">>
             /\ ~IsIndexMetric(hierarchy_metrics, ColGDP)

\* Society_Health_health and Economy_Business_GDPGrowth have been
\* classified: the first is the index HEALTH_INDEX, the second a component
C19_Witness ==
    /\ pc = "etl_done"
    /\ columns = <<ColHealthHealth, ColGDP>>
    /\ hierarchy_metrics[ColHealthHealth].metric_name = <<"HEALTH", "INDEX">>
    /\ hierarchy_metrics[ColHealthHealth].requires_calculation
    /\ hierarchy_metrics[ColGDP].metric_name = <<"GDPGrowth">>
    /\ ~hierarchy_metrics[ColGDP].requires_calculation

----------------------------------------------------------------------------
(* C20 (as claimed): a metric column whose name has fewer than two         *)
(* segments is skipped -- it gets no metric definition and no raw-fact,    *)
(* percentile or aggregated row derived from it appears in any table.      *)
ShortColumns == {col \in Range(columns) : Len(col) < 2}

C20_ShortColumnSkipped ==
    \A col \in ShortColumns :
       /\ col \notin DOMAIN hierarchy_metrics
       /\ \A id \in DOMAIN metric_metadata :
             metric_metadata[id].category # Lower(col[1])
       /\ \A k \in DOMAIN raw_metrics : k[2][1] # Lower(col[1])
       /\ \A k \in DOMAIN aggregated_scores : k[3][1] # Lower(col[1])
       /\ \A i \in DOMAIN etl_raw_metrics :
             etl_raw_metrics[i].metric_name # col
       /\ WrittenByLoadData =>
             \A i \in DOMAIN computed_metrics :
                computed_metrics[i].metric_name # col

----------------------------------------------------------------------------
(* C21 (as claimed): catalog uniqueness -- no two accepted columns yield   *)
(* metric definitions with the same (category, subcategory, metric name),  *)
(* every metric identifier of the catalog maps back to exactly one source  *)
(* column, and one run stores no two facts of a county under the same      *)
(* metric identifier.                                                      *)
DefinitionTriple(m) == <<m.top_level, m.sub_category, m.metric_name>>

ComputedKey(rec) ==
    <<rec.county_fips, rec.top_level, rec.sub_category, rec.metric_name,
      rec.data_year>>

C21_CatalogUnique ==
    /\ \A a, b \in DOMAIN hierarchy_metrics :
          DefinitionTriple(hierarchy_metrics[a])
             = DefinitionTriple(hierarchy_metrics[b]) => a = b
    /\ \A id \in DOMAIN metric_metadata :
          Cardinality({c \in ParsedCols : MetricId(columns[c]) = id}) = 1
    /\ (etl_runs = 1 /\ WrittenByLoadData) =>
          \A i, j \in DOMAIN computed_metrics :
             ComputedKey(computed_metrics[i]) = ComputedKey(computed_metrics[j])
                => i = j

----------------------------------------------------------------------------
(* C22 (as claimed): row rejection -- a row whose identifier, state or     *)
(* county name is missing is rejected, not given a default: it is absent   *)
(* from every output (region directory, raw facts, percentiles, returned   *)
(* frame) and all other rows are kept, for clean_data (run_pipeline),      *)
(* run_simple_etl and data_loader.load_data alike.                         *)
RejectedRows ==
    {r \in Rows : \/ df[r].FIPS = NULL
                  \/ df[r].State = NoText
                  \/ df[r].County = NoText}

RetainedRows == Rows \ RejectedRows

RetainedCells ==
    {rc \in RetainedRows \X Cols : Cell(rc[1], rc[2]) # NULL}

C22_CleanDataRejects ==
    pc = "etl_done" =>
       /\ BagCardinality(etl_counties) = Cardinality(RetainedRows)
       /\ \A r \in RetainedRows :
             \E rec \in BagToSet(etl_counties) :
                /\ rec.state_name = df[r].State
                /\ rec.county_name = CountyName(df[r].County)
       /\ Len(etl_raw_metrics) = Cardinality(RetainedCells)
       /\ Len(computed_metrics) = Cardinality(RetainedCells)

C22_RowRejection ==
    /\ C22_CleanDataRejects
    /\ pc = "simple_done" => DOMAIN simple_etl_df = RetainedRows
    /\ pc = "loaded" => DOMAIN loaded_df = RetainedRows

----------------------------------------------------------------------------
(* C23 (as claimed): region-identifier normalization -- for every retained *)
(* row the stored identifier is the input identifier as a string with only *)
(* a trailing ".0" removed and zeros prepended, it has exactly the width   *)
(* 5, and normalizing it again returns it unchanged (clean_data and        *)
(* run_simple_etl).                                                        *)
StripTrailingDotZero(text) ==
    IF /\ Len(text) >= 2
       /\ text[Len(text) - 1] = "."
       /\ text[Len(text)] = "0"
    THEN SubSeq(text, 1, Len(text) - 2)
    ELSE text

\* text is pad with zeros in front: a run of "0" followed by the characters
IsZeroPadded(text, of) ==
    /\ Len(text) >= Len(of)
    /\ SubSeq(text, Len(text) - Len(of) + 1, Len(text)) = of
    /\ \A i \in 1..(Len(text) - Len(of)) : text[i] = "0"

IsNormalized(stored, fips) ==
    /\ IsZeroPadded(stored, StripTrailingDotZero(FipsText(fips)))
    /\ Len(stored) = FipsWidth
    /\ NormalizeFips(stored) = stored

C23_FipsNormalized ==
    /\ pc = "etl_done" =>
          /\ \A rec \in BagToSet(etl_counties) :
                \E r \in RetainedRows : IsNormalized(rec.fips_code, df[r].FIPS)
          /\ \A r \in RetainedRows :
                \E rec \in BagToSet(etl_counties) :
                   IsNormalized(rec.fips_code, df[r].FIPS)
    /\ pc = "simple_done" =>
          \A r \in DOMAIN simple_etl_df :
             IsNormalized(simple_etl_df[r].county_fips, df[r].FIPS)

\* C23 (as the code has it): the stored identifier is the identifier text
\* without its ".0", zeros prepended up to the width 5 and never cut: it
\* has at least 5 characters, exactly 5 when the identifier has at most
\* five digits, and normalizing it again returns it unchanged.
IsPadded(stored, fips) ==
    /\ IsZeroPadded(stored, StripTrailingDotZero(FipsText(fips)))
    /\ Len(stored) >= FipsWidth
    /\ (fips # NULL /\ IntOf(fips) < 100000) => Len(stored) = FipsWidth
    /\ (fips # NULL /\ IntOf(fips) >= 100000) =>
          stored = Digits(IntOf(fips))
    /\ NormalizeFips(stored) = stored

C23_FipsPadded ==
    /\ pc = "etl_done" =>
          /\ \A rec \in BagToSet(etl_counties) :
                \E r \in RetainedRows : IsPadded(rec.fips_code, df[r].FIPS)
          /\ \A r \in RetainedRows :
                \E rec \in BagToSet(etl_counties) :
                   IsPadded(rec.fips_code, df[r].FIPS)
    /\ pc = "simple_done" =>
          \A r \in DOMAIN simple_etl_df :
             IsPadded(simple_etl_df[r].county_fips, df[r].FIPS)

\* clean_data has stored a six-digit identifier that it read from a float
\* column as '100100.0'
C23_Witness ==
    /\ pc = "etl_done"
    /\ FipsIsFloat
    /\ \E rec \in BagToSet(etl_counties) :
          rec.fips_code = <<"1", "0", "0", "1", "0", "0">>

----------------------------------------------------------------------------
(* C24 (as claimed): cell-level failure only -- a non-numeric or empty     *)
(* metric cell becomes null (never zero), creates no raw fact, and does    *)
(* not remove its row: load_data returns every row of the file with the    *)
(* cell null exactly when it holds no number, and import_from_wide_format  *)
(* stores a raw fact exactly for the cells that are present and            *)
(* numerically coercible, whatever the other cells of the row hold.        *)

\* a cell that holds a number: a numeric cell, or a text that is a number
\* once its percent sign is removed
HoldsNumber(value) ==
    /\ value # NULL
    /\ IsText(value) =>
          LET text == RemovePercent(value)
          IN  text # <<>> /\ \A i \in DOMAIN text : DigitValue(text[i]) >= 0

\* a cell float() accepts
IsFloatable(value) ==
    /\ value # NULL
    /\ IsText(value) => \A i \in DOMAIN value : DigitValue(value[i]) >= 0

C24_ImportCellFailure ==
    pc = "imported" =>
       \A r \in Rows, c \in Cols :
          (<<IntOf(df[r].FIPS), MetricId(columns[c])>> \in DOMAIN raw_metrics)
             <=> IsFloatable(Cell(r, c))

C24_CellFailureOnly ==
    /\ pc = "loaded" =>
          \A r \in Rows :
             /\ r \in DOMAIN loaded_df
             /\ \A c \in Cols :
                   /\ (loaded_df[r].cells[c] # NULL) <=> HoldsNumber(Cell(r, c))
                   /\ ~HoldsNumber(Cell(r, c)) => loaded_df[r].cells[c] # Rat(0)
    /\ C24_ImportCellFailure

----------------------------------------------------------------------------
(* C25 (as claimed): getScores completeness -- the nested mapping returned *)
(* for a region holds, for every (category, subcategory) at which the      *)
(* region has a subcategory percentile score, exactly that score under     *)
(* category -> subcategory, whatever category the parser produced, and     *)
(* nothing else (no score of another region).                              *)
SubcategoryRowsOf(fips) ==
    {k \in DOMAIN aggregated_scores : k[1] = fips /\ k[2] = "subcategory"}

C25_ScoresComplete ==
    pc = "closed" =>
       LET fips == dashboard_data.fips
           data == dashboard_data.data
       IN  /\ \A k \in SubcategoryRowsOf(fips) :
                 /\ k[3][1] \in DOMAIN data
                 /\ Upper(k[3][2]) \in DOMAIN data[k[3][1]]
                 /\ data[k[3][1]][Upper(k[3][2])]
                       = aggregated_scores[k].percentile_score
           /\ \A category \in DOMAIN data :
                 \A subcategory \in DOMAIN data[category] :
                    \E k \in SubcategoryRowsOf(fips) :
                       /\ k[3][1] = category
                       /\ Upper(k[3][2]) = subcategory

----------------------------------------------------------------------------
(* C26: per-metric ranking is order- and interleaving-independent -- with  *)
(* the metrics ranked in any order and the reads and row updates of their  *)
(* ranking tasks interleaved, the stored values at the end are those of    *)
(* ranking the metrics one after another, and the task of a metric reads   *)
(* and writes only rows of that metric: while a task has not read, its     *)
(* rows hold the imported values; a row it has not yet updated holds its   *)
(* imported value and an updated row its final percentile.                 *)
FinalPercentiles == RankAllMetrics(metric_metadata, RawRows)

C26_OrderIndependent ==
    /\ pc = "ranked" => raw_metrics = FinalPercentiles
    /\ pc = "ranking" =>
          \A k \in DOMAIN raw_metrics :
             /\ k[2] \in DOMAIN rank_tasks
             /\ LET task == rank_tasks[k[2]]
                IN  /\ task.stage = "pending" => raw_metrics[k] = RawRows[k]
                    /\ task.stage = "updating" =>
                          /\ task.percentile[k[1]] = FinalPercentiles[k]
                          /\ raw_metrics[k] = IF k[1] \in task.todo
                                              THEN RawRows[k]
                                              ELSE FinalPercentiles[k]
                    /\ task.stage = "done" =>
                          raw_metrics[k] = FinalPercentiles[k]

\* the tasks of two metrics are both between their first and their last
\* update, and an updated row of the inverted metric holds a percentile that
\* differs from its imported value
C26_Witness ==
    /\ pc = "ranking"
    /\ \A m \in DOMAIN rank_tasks :
          /\ rank_tasks[m].stage = "updating"
          /\ rank_tasks[m].todo # {}
          /\ rank_tasks[m].todo # DOMAIN rank_tasks[m].percentile
    /\ Cardinality(DOMAIN rank_tasks) = 2
    /\ \E k \in DOMAIN raw_metrics : raw_metrics[k] # RawRows[k]

----------------------------------------------------------------------------
(* C27: percentile ranking leaves the raw facts unchanged -- once          *)
(* calculate_percentiles has run, raw_metrics still holds for every        *)
(* (fips, metric_id) the numeric value read from the source cell.          *)
C27_RawFactsKept ==
    rank_runs >= 1 => raw_metrics = RawRows

----------------------------------------------------------------------------
(* C28: taxonomy tree well-formedness -- after FlexibleMetricHierarchy is  *)
(* built, every accepted column appears in exactly one (top level,         *)
(* sub-category) node, once, and that node is the one of its own           *)
(* definition; every key in the tree has a definition; no sub-category     *)
(* and no top level is empty; and building again from the same column      *)
(* list gives the same metrics and the same hierarchy.                     *)
TreeNodes ==
    UNION {{<<t, sb>> : sb \in DOMAIN etl_hierarchy[t]} :
              t \in DOMAIN etl_hierarchy}

NodeKeys(n) == etl_hierarchy[n[1]][n[2]]

\* the places (node, position) of the tree that hold a column
Occurrences(col) ==
    UNION {{<<n, i>> : i \in {j \in DOMAIN NodeKeys(n) : NodeKeys(n)[j] = col}} :
              n \in TreeNodes}

HierarchyBuilt ==
    \/ pc \in {"drop_counties", "create_counties", "load_counties",
               "load_raw_metrics"}
    \/ etl_runs >= 1

C28_Tree ==
    HierarchyBuilt =>
       /\ \A col \in DOMAIN hierarchy_metrics :
             /\ Cardinality(Occurrences(col)) = 1
             /\ \A x \in Occurrences(col) :
                   x[1] = <<hierarchy_metrics[col].top_level,
                            hierarchy_metrics[col].sub_category>>
       /\ \A n \in TreeNodes :
             /\ NodeKeys(n) # <<>>
             /\ Range(NodeKeys(n)) \subseteq DOMAIN hierarchy_metrics
       /\ \A t \in DOMAIN etl_hierarchy : DOMAIN etl_hierarchy[t] # {}
       /\ DOMAIN hierarchy_metrics \subseteq Range(columns)

\* the first step of a later call of run_pipeline builds them again
C28_Rebuild ==
    (etl_runs >= 1 /\ pc = "etl_done" /\ pc' = "drop_counties") =>
        /\ hierarchy_metrics' = hierarchy_metrics
        /\ etl_hierarchy' = etl_hierarchy

C28_TreeWellFormed == [](C28_Tree) /\ [][C28_Rebuild]_vars

\* the hierarchy was built twice and has two sub-categories under one top
\* level
C28_Witness ==
    /\ etl_runs = 2
    /\ \E n1, n2 \in TreeNodes : n1[1] = n2[1] /\ n1[2] # n2[2]

----------------------------------------------------------------------------
(* C29: calculate_percentiles is idempotent -- a second call on the store  *)
(* left by the first call changes no stored value.                         *)
C29_RankIdempotent ==
    [][(rank_runs >= 1 /\ rank_runs' = rank_runs + 1)
          => raw_metrics' = raw_metrics]_vars

----------------------------------------------------------------------------
(* C30: dashboard navigation stack discipline -- once the navigation       *)
(* history is non-empty the current drill-down state equals its last       *)
(* entry; Back with more than one entry removes exactly the last entry and *)
(* makes the previous one current; Back with one entry changes nothing and *)
(* never empties the history; Reset leaves the overview state as the       *)
(* single entry; and the Back button is disabled exactly when the history  *)
(* has at most one entry.                                                  *)
C30_CurrentIsLast ==
    navigation_history # <<>> =>
        drill_down_state = navigation_history[Len(navigation_history)]

C30_BackStep ==
    BackClick =>
       IF Len(navigation_history) > 1
       THEN /\ navigation_history' =
                  SubSeq(navigation_history, 1, Len(navigation_history) - 1)
            /\ drill_down_state' =
                  navigation_history[Len(navigation_history) - 1]
       ELSE /\ navigation_history' = navigation_history
            /\ drill_down_state' = drill_down_state
            /\ navigation_history' # <<>>

C30_ResetStep ==
    ResetClick => /\ navigation_history' = <<Overview>>
                  /\ drill_down_state' = Overview

C30_BackDisabled ==
    pc = "serving" => (back_disabled <=> Len(navigation_history) <= 1)

\* the parts about the two stores
C30_StoresDiscipline ==
    [](C30_CurrentIsLast) /\ [][C30_BackStep /\ C30_ResetStep]_vars

C30_NavigationStack == C30_StoresDiscipline /\ [](C30_BackDisabled)

====
